---- MODULE Spec2Model ----
(***************************************************************************)
(* jobintel: raw ingestion (dedup), Transform, Skill Extraction, the       *)
(* ingest-run orchestrator and the environment-filtered analytics queries. *)
(*                                                                         *)
(* Encoding of Python values                                               *)
(*   None            <<>>            (an absent key reads as None: .get)   *)
(*   a present value <<v>>                                                 *)
(*   str used by strip()/lower()     a sequence of one-character strings   *)
(*   description                     a sequence of words (single spaces)   *)
(*   sha256/md5 hex digest           [alg, blob]: the digest is taken to   *)
(*                                   be injective on the hashed blob       *)
(*   datetime.now()                  "now" (the value is never compared)   *)
(***************************************************************************)
EXTENDS Integers, Sequences, FiniteSets, TLC

VARIABLES
    raw_jobs,      \* table raw_jobs, committed rows in id order
    jobs,          \* table jobs, committed rows in id order
    job_skills,    \* table job_skills, committed rows in insertion order
    ingest_runs,   \* table ingest_runs, committed rows in id order
    settings_ENV,  \* settings.ENV of the process
    pc,            \* position of the run_ingest call in progress ("idle": none)
    run,           \* locals of the run_ingest call in progress
    ret,           \* outcome of the last completed call
    upserted,      \* history: payloads passed to upsert_raw_job so far
    shadow,        \* second store of the two-history comparison (SpecNI)
    registry,      \* sources/registry.py: _SOURCES and _initialized
    fetch,         \* locals of the arbeitnow fetch in progress (SpecSources)
    workers,       \* concurrent sessions: of upsert_raw_job calls (SpecRace),
                   \* of run_ingest calls (SpecConc)
    trend          \* the skill-trend query in progress (SpecTrends)

vars == <<raw_jobs, jobs, job_skills, ingest_runs, settings_ENV, pc, run, ret,
          upserted, shadow, registry, fetch, workers, trend>>

----------------------------------------------------------------------------
(* Bounds *)

MaxRaw == 3
MaxRuns == 2
MaxFetch == 2

----------------------------------------------------------------------------
(* Python values *)

None == <<>>
Some(v) == <<v>>
\* truthiness of an optional str kept as one token, and of an optional sequence
TruthyStr(o) == o /= None /\ o[1] /= ""
TruthySeq(o) == o /= None /\ o[1] /= <<>>
\* (x or "") of an optional character sequence
OrEmpty(o) == IF TruthySeq(o) THEN o[1] ELSE <<>>

Range(s) == {s[i] : i \in 1..Len(s)}


Environments == {"development", "test", "production"}
PRODUCTION_ENV == "production"

----------------------------------------------------------------------------
(* str.strip() and str.lower() on character sequences *)

LowerChar(c) ==
    CASE c = "D" -> "d"
      [] c = "E" -> "e"
      [] c = "O" -> "o"
      [] c = "P" -> "p"
      [] c = "T" -> "t"
      [] c = "J" -> "j"
      [] c = "C" -> "c"
      [] c = "R" -> "r"
      [] OTHER -> c

lower(s) == [i \in 1..Len(s) |-> LowerChar(s[i])]

RECURSIVE lstrip(_)
lstrip(s) == IF s /= <<>> /\ Head(s) = " " THEN lstrip(Tail(s)) ELSE s

RECURSIVE rstrip(_)
rstrip(s) ==
    IF s /= <<>> /\ s[Len(s)] = " " THEN rstrip(SubSeq(s, 1, Len(s) - 1)) ELSE s

strip(s) == rstrip(lstrip(s))

----------------------------------------------------------------------------
(* etl/raw.py *)

\* a hash that also covers the tags of the payload
compute_content_hash_WithTags(payload) ==
    [alg |-> "sha256",
     blob |-> <<payload.source, payload.external_id, payload.url, payload.title,
                payload.company, payload.location, payload.posted_at,
                payload.description,
                IF "tags" \in DOMAIN payload THEN Some(payload.tags) ELSE None>>]

\* json.dumps of the eight values under their sorted keys
compute_content_hash(payload) ==
    [alg |-> "sha256",
     blob |-> <<payload.source, payload.external_id, payload.url, payload.title,
                payload.company, payload.location, payload.posted_at,
                payload.description>>]

\* payload = dict(payload); payload.setdefault("content_hash", ...)
WithContentHash(payload) ==
    IF payload.content_hash /= None THEN payload
    ELSE [payload EXCEPT !.content_hash = Some(compute_content_hash(payload))]

\* the SELECT of upsert_raw_job: rows with the same content_hash and,
\* when the payload has a url, the same url
\* a lookup that compares the url alone
RawMatches_UrlOnly(rows, payload) ==
    {i \in 1..Len(rows) :
        TruthyStr(payload.url) /\ rows[i].payload_json.url = payload.url}

RawMatches(rows, payload) ==
    LET p == WithContentHash(payload) IN
    {i \in 1..Len(rows) :
        /\ rows[i].payload_json.content_hash = p.content_hash
        /\ (TruthyStr(p.url) => rows[i].payload_json.url = p.url)}

\* RawJob(source=payload.get("source", "unknown"), payload_json=payload)
NewRawJob(rows, payload) ==
    [id |-> Len(rows) + 1,
     source |-> IF payload.source /= None THEN payload.source[1] ELSE "unknown",
     payload_json |-> WithContentHash(payload)]

\* column raw_jobs.environment (alembic fbbd657b4749) set from the
\* environment argument the callers of upsert_raw_job pass
TagEnvironment(row, environment) == row @@ [environment |-> environment]

\* a call whose lookup sees the rows of its own environment only
upsert_raw_job_PerEnvironment(rows, payload, environment) ==
    IF \E i \in RawMatches(rows, payload) : rows[i].environment = environment
    THEN [rows |-> rows, inserted |-> FALSE]
    ELSE [rows |-> Append(rows, TagEnvironment(NewRawJob(rows, payload), environment)),
          inserted |-> TRUE]

\* result of one call on the rows the session sees: the rows afterwards
\* and the returned boolean
upsert_raw_job(rows, payload, environment) ==
    IF RawMatches(rows, payload) /= {}
    THEN [rows |-> rows, inserted |-> FALSE]
    ELSE [rows |-> Append(rows, TagEnvironment(NewRawJob(rows, payload), environment)),
          inserted |-> TRUE]

----------------------------------------------------------------------------
(* etl/transform.py *)

\* date.fromisoformat(str(v)) on the posted_at strings of the payloads below;
\* the result is the date as str() prints it
\* date.isoformat() of the days from Monday 2026-01-12 (day 0) on
DayStrings ==
    << "2026-01-12", "2026-01-13", "2026-01-14", "2026-01-15", "2026-01-16",
       "2026-01-17", "2026-01-18", "2026-01-19", "2026-01-20" >>

isoformat(day) == DayStrings[day + 1]

fromisoformat(v) ==
    CASE v = "2025-12-30" -> Some("2025-12-30")
      [] v \in Range(DayStrings) -> Some(v)
      [] v = "20251230" -> Some("2025-12-30")
      [] v = "2025-12-31" -> Some("2025-12-31")
      [] OTHER -> None   \* ValueError

safe_date(v) == IF ~TruthyStr(v) THEN None ELSE fromisoformat(v[1])

NormField(o) == lower(strip(OrEmpty(o)))

\* a hash over the trimmed fields as written, without lower()
job_hash_CaseSensitive(title, company, location, posted_at) ==
    [alg |-> "sha256",
     blob |-> strip(OrEmpty(title)) \o <<"|">> \o strip(OrEmpty(company)) \o <<"|">>
              \o strip(OrEmpty(location)) \o <<"|">> \o posted_at]

job_hash(title, company, location, posted_at) ==
    [alg |-> "sha256",
     blob |-> NormField(title) \o <<"|">> \o NormField(company) \o <<"|">>
              \o NormField(location) \o <<"|">> \o posted_at]

\* the Job built from one raw row (lines 57-78)
JobOf(r, id) ==
    LET p == r.payload_json
        posted_at == safe_date(p.posted_at)
    IN [id |-> id,
        title |-> p.title,
        company |-> p.company,
        location |-> p.location,
        url |-> p.url,
        posted_at |-> posted_at,
        description |-> p.description,
        hash |-> Some(job_hash(p.title, p.company, p.location, posted_at))]

\* a loop that skips on a seen content hash only
RECURSIVE TransformLoop_NoUrlCheck(_, _, _, _, _, _)
TransformLoop_NoUrlCheck(rows, i, nextId, seen_urls, seen_hashes, added) ==
    IF i > Len(rows) THEN added
    ELSE LET j == JobOf(rows[i], nextId) IN
         IF ~TruthyStr(j.url)
         THEN TransformLoop_NoUrlCheck(rows, i + 1, nextId, seen_urls, seen_hashes, added)
         ELSE IF j.hash[1] \in seen_hashes
         THEN TransformLoop_NoUrlCheck(rows, i + 1, nextId, seen_urls, seen_hashes, added)
         ELSE TransformLoop_NoUrlCheck(rows, i + 1, nextId + 1,
                                       seen_urls \cup {j.url[1]},
                                       seen_hashes \cup {j.hash[1]},
                                       Append(added, j))

\* a loop that ends with the first Job it adds
RECURSIVE TransformLoop_FirstOnly(_, _, _, _, _, _)
TransformLoop_FirstOnly(rows, i, nextId, seen_urls, seen_hashes, added) ==
    IF i > Len(rows) \/ added /= <<>> THEN added
    ELSE LET j == JobOf(rows[i], nextId) IN
         IF ~TruthyStr(j.url)
         THEN TransformLoop_FirstOnly(rows, i + 1, nextId, seen_urls, seen_hashes, added)
         ELSE IF j.url[1] \in seen_urls \/ j.hash[1] \in seen_hashes
         THEN TransformLoop_FirstOnly(rows, i + 1, nextId, seen_urls, seen_hashes, added)
         ELSE TransformLoop_FirstOnly(rows, i + 1, nextId + 1,
                                      seen_urls \cup {j.url[1]},
                                      seen_hashes \cup {j.hash[1]},
                                      Append(added, j))

\* the loop over raw_rows: added is the list of session.add()ed Jobs
RECURSIVE TransformLoop(_, _, _, _, _, _)
TransformLoop(rows, i, nextId, seen_urls, seen_hashes, added) ==
    IF i > Len(rows) THEN added
    ELSE LET j == JobOf(rows[i], nextId) IN
         IF ~TruthyStr(j.url)
         THEN TransformLoop(rows, i + 1, nextId, seen_urls, seen_hashes, added)
         ELSE IF j.url[1] \in seen_urls \/ j.hash[1] \in seen_hashes
         THEN TransformLoop(rows, i + 1, nextId, seen_urls, seen_hashes, added)
         ELSE TransformLoop(rows, i + 1, nextId + 1,
                            seen_urls \cup {j.url[1]},
                            seen_hashes \cup {j.hash[1]},
                            Append(added, j))

\* constraints of table jobs checked when the INSERTs are flushed:
\* title NOT NULL, url UNIQUE, hash UNIQUE
JobsConstraintsOk(table) ==
    /\ \A i \in 1..Len(table) : table[i].title /= None
    /\ \A i, k \in 1..Len(table) :
          i /= k =>
            /\ (table[i].url /= None => table[i].url /= table[k].url)
            /\ (table[i].hash /= None => table[i].hash /= table[k].hash)

\* a call that merges a raw row with a seen url into the Job of that url
transform_jobs_Merge(rows, table) ==
    LET seen_urls == {table[i].url[1] : i \in {k \in 1..Len(table) : TruthyStr(table[k].url)}}
        seen_hashes == {table[i].hash[1] : i \in {k \in 1..Len(table) : table[k].hash /= None}}
        added == TransformLoop(rows, 1, Len(table) + 1, seen_urls, seen_hashes, <<>>)
        SameUrl(j) == {k \in 1..Len(rows) : rows[k].payload_json.url = j.url}
        Latest(j) == CHOOSE k \in SameUrl(j) : \A m \in SameUrl(j) : m <= k
        merged == [i \in 1..Len(table) |->
                      IF SameUrl(table[i]) = {} THEN table[i]
                      ELSE JobOf(rows[Latest(table[i])], table[i].id)]
    IN IF JobsConstraintsOk(merged \o added)
       THEN [ok |-> TRUE, jobs |-> merged \o added, inserted |-> Len(added)]
       ELSE [ok |-> FALSE, jobs |-> table, inserted |-> 0]

\* one call: the tables afterwards, the returned count, or the IntegrityError
\* raised by session.commit() (nothing of the session's transaction is kept)
transform_jobs(rows, table) ==
    LET seen_urls == {table[i].url[1] : i \in {k \in 1..Len(table) : TruthyStr(table[k].url)}}
        seen_hashes == {table[i].hash[1] : i \in {k \in 1..Len(table) : table[k].hash /= None}}
        added == TransformLoop(rows, 1, Len(table) + 1, seen_urls, seen_hashes, <<>>)
    IN IF JobsConstraintsOk(table \o added)
       THEN [ok |-> TRUE, jobs |-> table \o added, inserted |-> Len(added)]
       ELSE [ok |-> FALSE, jobs |-> table, inserted |-> 0]

----------------------------------------------------------------------------
(* etl/skills.py *)

\* _SKILL_PATTERNS: skill -> the word sequences its pattern matches between
\* word boundaries ("a|b" gives two alternatives, "postgres(?:ql)?" two words,
\* "scikit[- ]learn" the two adjacent words)
SKILL_PATTERNS ==
    << [skill |-> "python", alts |-> {<<"python">>}],
       [skill |-> "sql", alts |-> {<<"sql">>}],
       [skill |-> "pandas", alts |-> {<<"pandas">>}],
       [skill |-> "aws", alts |-> {<<"aws">>, <<"amazon", "web", "services">>}],
       [skill |-> "fastapi", alts |-> {<<"fastapi">>}],
       [skill |-> "postgres", alts |-> {<<"postgres">>, <<"postgresql">>}],
       [skill |-> "docker", alts |-> {<<"docker">>}],
       [skill |-> "scikit-learn", alts |-> {<<"scikit", "learn">>, <<"sklearn">>}],
       [skill |-> "pytest", alts |-> {<<"pytest">>}],
       [skill |-> "ci", alts |-> {<<"ci">>, <<"continuous", "integration">>}] >>

LowerWord(w) ==
    CASE w = "Python" -> "python"
      [] w = "AWS" -> "aws"
      [] w = "SQL" -> "sql"
      [] w = "Docker" -> "docker"
      [] w = "Amazon" -> "amazon"
      [] w = "Web" -> "web"
      [] w = "Services" -> "services"
      [] w = "Django" -> "django"
      [] w = "PostgreSQL" -> "postgresql"
      [] OTHER -> w

LowerText(t) == [i \in 1..Len(t) |-> LowerWord(t[i])]

\* re.search of one alternative in the lower-cased text
Search(alt, t) ==
    \E i \in 1..Len(t) :
        i + Len(alt) - 1 <= Len(t) /\ SubSeq(t, i, i + Len(alt) - 1) = alt

\* the set found, as the sub-sequence of SKILL_PATTERNS that matched
RECURSIVE MatchFrom(_, _)
MatchFrom(k, t) ==
    IF k > Len(SKILL_PATTERNS) THEN <<>>
    ELSE IF \E alt \in SKILL_PATTERNS[k].alts : Search(alt, t)
         THEN <<SKILL_PATTERNS[k].skill>> \o MatchFrom(k + 1, t)
         ELSE MatchFrom(k + 1, t)

extract_skills(text) ==
    IF ~TruthySeq(text) THEN <<>> ELSE MatchFrom(1, LowerText(text[1]))

\* the inner loop over the skills of one job
RECURSIVE SkillLoop(_, _, _, _)
SkillLoop(job_id, found, existing_pairs, added) ==
    IF found = <<>> THEN added
    ELSE LET key == <<job_id, Head(found)>> IN
         IF key \in existing_pairs \cup Range(added)
         THEN SkillLoop(job_id, Tail(found), existing_pairs, added)
         ELSE SkillLoop(job_id, Tail(found), existing_pairs, Append(added, key))

\* the outer loop over the jobs
RECURSIVE JobLoop(_, _, _, _)
JobLoop(table, i, existing_pairs, added) ==
    IF i > Len(table) THEN added
    ELSE JobLoop(table, i + 1, existing_pairs,
                 SkillLoop(table[i].id, extract_skills(table[i].description),
                           existing_pairs, added))

\* composite primary key (job_id, skill) of table job_skills
SkillsConstraintsOk(pairs) ==
    \A i, k \in 1..Len(pairs) : i /= k => pairs[i] /= pairs[k]

\* a call that does not load the existing pairs
extract_skills_for_jobs_NoExisting(table, pairs) ==
    LET added == JobLoop(table, 1, {}, <<>>) IN
    IF SkillsConstraintsOk(pairs \o added)
    THEN [ok |-> TRUE, job_skills |-> pairs \o added, inserted |-> Len(added)]
    ELSE [ok |-> FALSE, job_skills |-> pairs, inserted |-> 0]

\* one call: the table afterwards and the returned count, or the
\* IntegrityError raised by session.commit()
extract_skills_for_jobs(table, pairs) ==
    LET added == JobLoop(table, 1, Range(pairs), <<>>) IN
    IF SkillsConstraintsOk(pairs \o added)
    THEN [ok |-> TRUE, job_skills |-> pairs \o added, inserted |-> Len(added)]
    ELSE [ok |-> FALSE, job_skills |-> pairs, inserted |-> 0]

extract_skills_for_all_jobs(table, pairs) == extract_skills_for_jobs(table, pairs)

----------------------------------------------------------------------------
(* Payloads the calls are made with *)

Payload(source, external_id, url, title, company, location, posted_at, description, content_hash) ==
    [source |-> source, external_id |-> external_id, url |-> url,
     title |-> title, company |-> company, location |-> location,
     posted_at |-> posted_at, description |-> description,
     content_hash |-> content_hash]

\* etl/sources/arbeitnow.py: md5 of f"{title}|{company_name}|{description}"
arbeitnow_content_hash(title, company, description) ==
    [alg |-> "md5",
     blob |-> title \o <<"|">> \o company \o <<"|">> \o description]

T_de == <<"d", "e">>
T_DE == <<" ", "D", "E">>
T_de2 == <<"d", "e", "2">>
T_ops == <<"o", "p">>
C_x == <<"x">>
C_y == <<"y">>
L_r == <<"r">>
L_b == <<"b">>

\* a posting as the remotive adapter or a fixture gives it
P_A == Payload(Some("remotive"), Some("1"), Some("u1"), Some(T_de), Some(C_x),
               Some(L_r), Some("2025-12-30"), Some(<<"Python", "AWS">>), None)
\* the same url with an updated title, date and description
P_Adup == Payload(Some("remotive"), Some("1"), Some("u1"), Some(T_de2), Some(C_x),
                  Some(L_r), Some("2025-12-31"), Some(<<"SQL">>), None)
\* the same posting seen on another board: other url, other spelling
P_Acopy == Payload(Some("remoteok"), Some("7"), Some("u2"), Some(T_DE), Some(C_x),
                   Some(L_r), Some("20251230"), Some(<<"Docker">>), None)
\* no url
P_NoUrl == Payload(Some("sample"), None, None, Some(T_de2), None, None, None,
                   Some(<<"Python">>), None)
\* a url but no title (upsert_raw_job does not validate)
P_NoTitle == Payload(Some("remotive"), Some("3"), Some("u3"), None, Some(C_y),
                     None, None, Some(<<"SQL">>), None)
\* a posting as the arbeitnow adapter gives it: its own content_hash, posted_at
\* as a datetime string
P_Arb == Payload(Some("arbeitnow"), Some("s4"), Some("u4"), Some(T_ops), Some(C_y),
                 Some(L_b), Some("2026-01-10T00:00:00+00:00"),
                 Some(<<"Docker", "postgresql">>),
                 Some(arbeitnow_content_hash(T_ops, C_y, <<"Docker", "postgresql">>)))
\* the same arbeitnow posting fetched again after its location changed
P_ArbMoved == [P_Arb EXCEPT !.location = Some(L_r)]
\* the arbeitnow posting on another board, without any posted_at
P_ArbTwin == Payload(Some("remotive"), Some("5"), Some("u5"), Some(T_ops), Some(C_y),
                     Some(L_b), None, Some(<<"pytest">>), None)
\* P_A as a dict that carries one more key, as the payloads of
\* tests/fixtures.py do
P_Atags == P_A @@ [tags |-> <<"python">>]

Payloads ==
    {P_A, P_Adup, P_Acopy, P_NoUrl, P_NoTitle, P_Arb, P_ArbMoved, P_ArbTwin, P_Atags}

----------------------------------------------------------------------------
(* Sequential calls on one store *)

EmptyStore == [raw_jobs |-> <<>>, jobs |-> <<>>, job_skills |-> <<>>]
NoRun == [id |-> 0]
NoRet == [op |-> "none"]
NoFetch == [page |-> 0]
\* _SOURCES = {} and _initialized = False: no adapter module imported yet
NoSources == [initialized |-> FALSE, sources |-> <<>>]
NoTrend == [op |-> "none"]

Init ==
    /\ raw_jobs = <<>>
    /\ jobs = <<>>
    /\ job_skills = <<>>
    /\ ingest_runs = <<>>
    /\ settings_ENV \in Environments
    /\ pc = "idle"
    /\ run = NoRun
    /\ ret = NoRet
    /\ upserted = {}
    /\ shadow = EmptyStore
    /\ registry = NoSources
    /\ fetch = NoFetch
    /\ workers = <<>>
    /\ trend = NoTrend

\* upsert_raw_job(session, payload, environment) followed by the caller's
\* session.commit() (tests/fixtures.py, scripts/fetch_remotive.py)
Upsert(payload, environment) ==
    LET r == upsert_raw_job(raw_jobs, payload, environment) IN
    /\ pc = "idle"
    /\ Len(r.rows) <= MaxRaw
    /\ raw_jobs' = r.rows
    /\ ret' = [op |-> "upsert", payload |-> payload, environment |-> environment,
               inserted |-> r.inserted]
    /\ upserted' = upserted \cup {payload}
    /\ UNCHANGED <<jobs, job_skills, ingest_runs, settings_ENV, pc, run, shadow>>
    /\ UNCHANGED <<registry, fetch, workers, trend>>

\* transform_jobs(session)
Transform ==
    LET r == transform_jobs(raw_jobs, jobs) IN
    /\ pc = "idle"
    /\ jobs' = r.jobs
    /\ ret' = [op |-> "transform", ok |-> r.ok, inserted |-> r.inserted]
    /\ UNCHANGED <<raw_jobs, job_skills, ingest_runs, settings_ENV, pc, run,
                   upserted, shadow>>
    /\ UNCHANGED <<registry, fetch, workers, trend>>

\* extract_skills_for_all_jobs(session)
Extract ==
    LET r == extract_skills_for_all_jobs(jobs, job_skills) IN
    /\ pc = "idle"
    /\ job_skills' = r.job_skills
    /\ ret' = [op |-> "extract", ok |-> r.ok, inserted |-> r.inserted]
    /\ UNCHANGED <<raw_jobs, jobs, ingest_runs, settings_ENV, pc, run,
                   upserted, shadow>>
    /\ UNCHANGED <<registry, fetch, workers, trend>>

\* the calls of one process, which tags what it ingests with settings.ENV
Next ==
    \/ \E payload \in Payloads : Upsert(payload, settings_ENV)
    \/ Transform
    \/ Extract

\* settings.ENV left at its default (core/config.py)
InitDefault ==
    /\ Init
    /\ settings_ENV = "development"

Spec == InitDefault /\ [][Next]_vars

----------------------------------------------------------------------------
(* etl/sources/registry.py, etl/sources/base.py *)

\* _SOURCES after _init_sources(), in registration order
SOURCES == <<"arbeitnow", "remoteok", "remotive">>

REQUIRED_KEYS == <<"source", "url", "title">>

\* not payload.get(key)
Falsy(payload, key) ==
    CASE key = "source" -> ~TruthyStr(payload.source)
      [] key = "url" -> ~TruthyStr(payload.url)
      [] key = "title" -> ~TruthySeq(payload.title)

RECURSIVE MissingFrom(_, _)
MissingFrom(k, payload) ==
    IF k > Len(REQUIRED_KEYS) THEN <<>>
    ELSE IF Falsy(payload, REQUIRED_KEYS[k])
         THEN <<REQUIRED_KEYS[k]>> \o MissingFrom(k + 1, payload)
         ELSE MissingFrom(k + 1, payload)

\* (is_valid, error_message): the message is kept as its list of missing keys
validate_payload(payload) ==
    LET missing == MissingFrom(1, payload) IN
    [is_valid |-> missing = <<>>, missing |-> missing]

\* a warning that counts positions from 1
Warning_OneBased(source_name, i, missing) ==
    [source |-> source_name, index |-> i + 1, missing |-> missing]

\* f"[{source_name}] Payload {i}: {error}", i counted from 0
Warning(source_name, i, missing) ==
    [source |-> source_name, index |-> i, missing |-> missing]

RECURSIVE ValidateFrom(_, _, _, _, _)
ValidateFrom(payloads, n, source_name, valid, warnings) ==
    IF n > Len(payloads) THEN [valid |-> valid, warnings |-> warnings]
    ELSE LET v == validate_payload(payloads[n]) IN
         IF v.is_valid
         THEN ValidateFrom(payloads, n + 1, source_name,
                           Append(valid, payloads[n]), warnings)
         ELSE ValidateFrom(payloads, n + 1, source_name, valid,
                           Append(warnings, Warning(source_name, n - 1, v.missing)))

validate_payloads(payloads, source_name) ==
    ValidateFrom(payloads, 1, source_name, <<>>, <<>>)

Exception(type, msg) == [type |-> type, msg |-> msg]

\* _SOURCES is kept as the list of its keys in insertion order (every adapter
\* is registered under its own name); _initialized is the module's flag

\* register_source(source): _SOURCES[source.name] = source
register_source(sources, name) ==
    IF name \in Range(sources) THEN sources ELSE Append(sources, name)

RECURSIVE ImportFrom(_, _)
ImportFrom(k, sources) ==
    IF k > Len(SOURCES) THEN sources
    ELSE ImportFrom(k + 1, register_source(sources, SOURCES[k]))

\* an initialisation that registers nothing
init_sources_Nothing(reg) == [reg EXCEPT !.initialized = TRUE]

\* _init_sources(): on first use imports the adapter modules, each of which
\* registers its adapter
init_sources(reg) ==
    IF reg.initialized THEN reg
    ELSE [initialized |-> TRUE, sources |-> ImportFrom(1, reg.sources)]

\* ValueError(f"Unknown source: {name}. Available: {list(_SOURCES.keys())}")
UnknownSource(name, available) ==
    Exception("ValueError", <<"Unknown source:", name, "Available:">> \o available)

\* a lookup that hands out an adapter for every name
get_source_AnyName(reg, name) ==
    [raised |-> None, source |-> name, registry |-> init_sources(reg)]

\* get_source(name): the adapter registered under the name, or ValueError;
\* registry is the registry the call leaves behind
get_source(reg, name) ==
    LET r == init_sources(reg) IN
    IF name \in Range(r.sources)
    THEN [raised |-> None, source |-> name, registry |-> r]
    ELSE [raised |-> Some(UnknownSource(name, r.sources)), source |-> name,
          registry |-> r]

\* what source.fetch(search, limit) can answer: a list of payloads of the
\* adapter, or an exception the adapter lets through
AdapterPayloads(name) ==
    CASE name = "remotive" -> {P_A, P_NoTitle}
      [] name = "arbeitnow" -> {P_Arb}
      [] OTHER -> {}

SeqsUpTo(S, n) == UNION {[1..m -> S] : m \in 0..n}

HTTPError == Exception("HTTPError", <<"503 Server Error">>)

\* resp.raise_for_status() is let through by remotive and remoteok;
\* arbeitnow catches requests.RequestException and returns what it has
FetchOutcomes(name) ==
    {[raised |-> None, payloads |-> l] : l \in SeqsUpTo(AdapterPayloads(name), MaxFetch)}
    \cup (IF name = "arbeitnow" THEN {}
          ELSE {[raised |-> Some(HTTPError), payloads |-> <<>>]})

\* fetch_from_source for one answer of the adapter; invoked tells whether
\* source.fetch was called
fetch_from_source(reg, source_name, outcome) ==
    LET g == get_source(reg, source_name) IN
    IF g.raised /= None
    THEN [raised |-> g.raised, valid |-> <<>>, warnings |-> <<>>,
          registry |-> g.registry, invoked |-> FALSE]
    ELSE IF outcome.raised /= None
    THEN [raised |-> outcome.raised, valid |-> <<>>, warnings |-> <<>>,
          registry |-> g.registry, invoked |-> TRUE]
    ELSE LET v == validate_payloads(outcome.payloads, source_name) IN
         [raised |-> None, valid |-> v.valid, warnings |-> v.warnings,
          registry |-> g.registry, invoked |-> TRUE]

----------------------------------------------------------------------------
(* etl/pipeline.py *)

\* the configured environment whatever the argument
ResolveEnv_AlwaysDefault(environment, default) == default

\* env = environment or settings.ENV
ResolveEnv(environment, default) ==
    IF TruthyStr(environment) THEN environment[1] ELSE default

\* the loop of run_etl_from_payloads over the payloads (flushed, not committed)
RECURSIVE UpsertAll(_, _, _, _)
UpsertAll(rows, payloads, env, inserted_raw) ==
    IF payloads = <<>> THEN [rows |-> rows, inserted_raw |-> inserted_raw]
    ELSE LET r == upsert_raw_job(rows, Head(payloads), env) IN
         UpsertAll(r.rows, Tail(payloads), env,
                   IF r.inserted THEN inserted_raw + 1 ELSE inserted_raw)

IntegrityError == Exception("IntegrityError", <<"constraint failed">>)
PendingRollbackError ==
    Exception("PendingRollbackError",
              <<"This Session's transaction has been rolled back">>)

\* the calls run_ingest is made with
RunCalls ==
    {[source_name |-> "remotive", search |-> "de", limit |-> 10, environment |-> None],
     [source_name |-> "arbeitnow", search |-> "", limit |-> 10,
      environment |-> Some("production")],
     [source_name |-> "nosuch", search |-> "de", limit |-> 10,
      environment |-> Some("test")]}

\* a row that is created without its status and start time, which the end of
\* the run would fill in
NewIngestRun_Unstarted(id, call, default) ==
    [id |-> id,
     source |-> call.source_name,
     search |-> IF call.search /= "" THEN Some(call.search) ELSE None,
     limit |-> call.limit,
     environment |-> IF call.environment /= None
                     THEN call.environment[1] ELSE default,
     status |-> "pending",
     started_at |-> None,
     finished_at |-> None,
     fetched |-> 0,
     inserted_raw |-> 0,
     inserted_jobs |-> 0,
     inserted_skills |-> 0,
     warnings |-> None,
     error |-> None]

\* IngestRun(source=..., status="running", started_at=now); columns not given
\* take their defaults
NewIngestRun(id, call, default) ==
    [id |-> id,
     source |-> call.source_name,
     search |-> IF call.search /= "" THEN Some(call.search) ELSE None,
     limit |-> call.limit,
     environment |-> ResolveEnv(call.environment, default),
     status |-> "running",
     started_at |-> Some("now"),
     finished_at |-> None,
     fetched |-> 0,
     inserted_raw |-> 0,
     inserted_jobs |-> 0,
     inserted_skills |-> 0,
     warnings |-> None,
     error |-> None]

\* lines 103-115: the row is added and committed
RunStart(call) ==
    /\ pc = "idle"
    /\ Len(ingest_runs) < MaxRuns
    /\ ingest_runs' = Append(ingest_runs,
                             NewIngestRun(Len(ingest_runs) + 1, call, settings_ENV))
    /\ run' = [id |-> Len(ingest_runs) + 1,
               call |-> call,
               env |-> ResolveEnv(call.environment, settings_ENV),
               payloads |-> <<>>,
               warnings |-> <<>>,
               inserted_raw |-> 0,
               inserted_jobs |-> 0,
               inserted_skills |-> 0,
               exc |-> None,
               rolled_back |-> FALSE,
               invoked |-> FALSE]
    /\ pc' = "fetch"
    /\ UNCHANGED <<raw_jobs, jobs, job_skills, settings_ENV, ret, upserted, shadow>>
    /\ UNCHANGED <<registry, fetch, workers, trend>>

\* line 119
RunFetch ==
    /\ pc = "fetch"
    /\ \E outcome \in FetchOutcomes(run.call.source_name) :
          LET f == fetch_from_source(registry, run.call.source_name, outcome) IN
          /\ Len(raw_jobs) + Len(f.valid) <= MaxRaw
          /\ registry' = f.registry
          /\ IF f.raised /= None
             THEN /\ run' = [run EXCEPT !.exc = f.raised, !.invoked = f.invoked]
                  /\ pc' = "fail"
             ELSE /\ run' = [run EXCEPT !.payloads = f.valid, !.warnings = f.warnings,
                                        !.invoked = f.invoked]
                  /\ pc' = "etl"
    /\ UNCHANGED <<raw_jobs, jobs, job_skills, ingest_runs, settings_ENV, ret,
                   upserted, shadow>>
    /\ UNCHANGED <<fetch, workers, trend>>

\* a run that transforms the store before it upserts its payloads
RunUpsertTransform_TransformFirst ==
    /\ pc = "etl"
    /\ LET t == transform_jobs(raw_jobs, jobs)
           u == UpsertAll(raw_jobs, run.payloads, run.env, 0)
       IN IF t.ok
          THEN /\ raw_jobs' = u.rows
               /\ jobs' = t.jobs
               /\ run' = [run EXCEPT !.inserted_raw = u.inserted_raw,
                                     !.inserted_jobs = t.inserted]
               /\ pc' = "extract"
          ELSE /\ UNCHANGED <<raw_jobs, jobs>>
               /\ run' = [run EXCEPT !.exc = Some(IntegrityError),
                                     !.rolled_back = TRUE]
               /\ pc' = "fail"
    /\ UNCHANGED <<job_skills, ingest_runs, settings_ENV, ret, upserted, shadow>>
    /\ UNCHANGED <<registry, fetch, workers, trend>>

\* lines 62-68: the upserts and transform_jobs, whose session.commit() makes
\* the rows of both visible, or fails and leaves the session's transaction
\* rolled back
RunUpsertTransform ==
    /\ pc = "etl"
    /\ LET u == UpsertAll(raw_jobs, run.payloads, run.env, 0)
           t == transform_jobs(u.rows, jobs)
       IN IF t.ok
          THEN /\ raw_jobs' = u.rows
               /\ jobs' = t.jobs
               /\ run' = [run EXCEPT !.inserted_raw = u.inserted_raw,
                                     !.inserted_jobs = t.inserted]
               /\ pc' = "extract"
          ELSE /\ UNCHANGED <<raw_jobs, jobs>>
               /\ run' = [run EXCEPT !.exc = Some(IntegrityError),
                                     !.rolled_back = TRUE]
               /\ pc' = "fail"
    /\ UNCHANGED <<job_skills, ingest_runs, settings_ENV, ret, upserted, shadow>>
    /\ UNCHANGED <<registry, fetch, workers, trend>>

\* line 69
RunExtract ==
    /\ pc = "extract"
    /\ LET e == extract_skills_for_all_jobs(jobs, job_skills) IN
       IF e.ok
       THEN /\ job_skills' = e.job_skills
            /\ run' = [run EXCEPT !.inserted_skills = e.inserted]
            /\ pc' = "finish"
       ELSE /\ UNCHANGED job_skills
            /\ run' = [run EXCEPT !.exc = Some(IntegrityError),
                                  !.rolled_back = TRUE]
            /\ pc' = "fail"
    /\ UNCHANGED <<raw_jobs, jobs, ingest_runs, settings_ENV, ret, upserted, shadow>>
    /\ UNCHANGED <<registry, fetch, workers, trend>>

\* a result that reports the inserted raw records as inserted skills
IngestResult_SkillsFromRaw(r) ==
    [fetched |-> Len(r.payloads),
     inserted_raw |-> r.inserted_raw,
     inserted_jobs |-> r.inserted_jobs,
     inserted_skills |-> r.inserted_raw,
     warnings |-> r.warnings]

IngestResult(r) ==
    [fetched |-> Len(r.payloads),
     inserted_raw |-> r.inserted_raw,
     inserted_jobs |-> r.inserted_jobs,
     inserted_skills |-> r.inserted_skills,
     warnings |-> r.warnings]

\* an update that reaches every row of the run's source
RunFinish_EveryRowOfSource ==
    /\ pc = "finish"
    /\ ingest_runs' =
          [i \in 1..Len(ingest_runs) |->
              IF ingest_runs[i].source = run.call.source_name
              THEN [ingest_runs[i] EXCEPT
                        !.status = "success",
                        !.finished_at = Some("now"),
                        !.fetched = Len(run.payloads),
                        !.inserted_raw = run.inserted_raw,
                        !.inserted_jobs = run.inserted_jobs,
                        !.inserted_skills = run.inserted_skills,
                        !.warnings = IF run.warnings /= <<>>
                                     THEN Some(run.warnings) ELSE None]
              ELSE ingest_runs[i]]
    /\ ret' = [op |-> "run_ingest", run_id |-> run.id, raised |-> None,
               result |-> Some(IngestResult(run))]
    /\ run' = NoRun
    /\ pc' = "idle"
    /\ UNCHANGED <<raw_jobs, jobs, job_skills, settings_ENV, upserted, shadow>>
    /\ UNCHANGED <<registry, fetch, workers, trend>>

\* lines 124-140
RunFinish ==
    /\ pc = "finish"
    /\ ingest_runs' =
          [ingest_runs EXCEPT ![run.id] =
              [@ EXCEPT !.status = "success",
                        !.finished_at = Some("now"),
                        !.fetched = Len(run.payloads),
                        !.inserted_raw = run.inserted_raw,
                        !.inserted_jobs = run.inserted_jobs,
                        !.inserted_skills = run.inserted_skills,
                        !.warnings = IF run.warnings /= <<>>
                                     THEN Some(run.warnings) ELSE None]]
    /\ ret' = [op |-> "run_ingest", run_id |-> run.id, raised |-> None,
               result |-> Some(IngestResult(run))]
    /\ run' = NoRun
    /\ pc' = "idle"
    /\ UNCHANGED <<raw_jobs, jobs, job_skills, settings_ENV, upserted, shadow>>
    /\ UNCHANGED <<registry, fetch, workers, trend>>

\* a handler that also stores what the run has gathered so far
RunFail_WithCounters ==
    /\ pc = "fail"
    /\ IF run.rolled_back
       THEN /\ UNCHANGED ingest_runs
            /\ ret' = [op |-> "run_ingest", run_id |-> run.id,
                       raised |-> Some(PendingRollbackError), result |-> None]
       ELSE /\ ingest_runs' =
                  [ingest_runs EXCEPT ![run.id] =
                      [@ EXCEPT !.status = "failed",
                                !.finished_at = Some("now"),
                                !.fetched = Len(run.payloads),
                                !.inserted_raw = run.inserted_raw,
                                !.warnings = Some(run.warnings),
                                !.error = Some(run.exc[1].msg)]]
            /\ ret' = [op |-> "run_ingest", run_id |-> run.id,
                       raised |-> run.exc, result |-> None]
    /\ run' = NoRun
    /\ pc' = "idle"
    /\ UNCHANGED <<raw_jobs, jobs, job_skills, settings_ENV, upserted, shadow>>
    /\ UNCHANGED <<registry, fetch, workers, trend>>

\* lines 141-147: the handler's session.commit() raises when the session's
\* transaction was rolled back by the failed flush
RunFail ==
    /\ pc = "fail"
    /\ IF run.rolled_back
       THEN /\ UNCHANGED ingest_runs
            /\ ret' = [op |-> "run_ingest", run_id |-> run.id,
                       raised |-> Some(PendingRollbackError), result |-> None]
       ELSE /\ ingest_runs' =
                  [ingest_runs EXCEPT ![run.id] =
                      [@ EXCEPT !.status = "failed",
                                !.finished_at = Some("now"),
                                !.error = Some(run.exc[1].msg)]]
            /\ ret' = [op |-> "run_ingest", run_id |-> run.id,
                       raised |-> run.exc, result |-> None]
    /\ run' = NoRun
    /\ pc' = "idle"
    /\ UNCHANGED <<raw_jobs, jobs, job_skills, settings_ENV, upserted, shadow>>
    /\ UNCHANGED <<registry, fetch, workers, trend>>

\* payloads a script upserts without validating them
SeedPayloads == {P_NoTitle}

NextIngest ==
    \/ \E payload \in SeedPayloads, environment \in Environments :
          Upsert(payload, environment)
    \/ \E call \in RunCalls : RunStart(call)
    \/ RunFetch
    \/ RunUpsertTransform
    \/ RunExtract
    \/ RunFinish
    \/ RunFail

SpecIngest == Init /\ [][NextIngest]_vars

----------------------------------------------------------------------------
(* Two histories of one pipeline: the store, and the shadow store that sees
   the same production upserts and postprocessing passes but none of the
   upserts tagged development or test *)

\* run_postprocess(session): Transform, then Extract over all jobs; an
\* exception of Transform leaves the pass
run_postprocess(rows, table, pairs) ==
    LET t == transform_jobs(rows, table) IN
    IF ~t.ok
    THEN [ok |-> FALSE, jobs |-> table, job_skills |-> pairs,
          inserted_jobs |-> 0, inserted_skills |-> 0]
    ELSE LET e == extract_skills_for_all_jobs(t.jobs, pairs) IN
         [ok |-> e.ok, jobs |-> t.jobs, job_skills |-> e.job_skills,
          inserted_jobs |-> t.inserted, inserted_skills |-> e.inserted]

NIPayloads == {P_A, P_Adup, P_Acopy}

\* the production deployment
InitNI ==
    /\ Init
    /\ settings_ENV = PRODUCTION_ENV

\* upsert_raw_job(session, payload, "production") and commit, in both histories
UpsertProduction(payload) ==
    LET r == upsert_raw_job(raw_jobs, payload, PRODUCTION_ENV)
        q == upsert_raw_job(shadow.raw_jobs, payload, PRODUCTION_ENV)
    IN
    /\ pc = "idle"
    /\ Len(r.rows) <= MaxRaw
    /\ raw_jobs' = r.rows
    /\ shadow' = [shadow EXCEPT !.raw_jobs = q.rows]
    /\ ret' = [op |-> "upsert", payload |-> payload, environment |-> PRODUCTION_ENV,
               inserted |-> r.inserted]
    /\ UNCHANGED <<jobs, job_skills, ingest_runs, settings_ENV, pc, run, upserted>>
    /\ UNCHANGED <<registry, fetch, workers, trend>>

\* upsert_raw_job(session, payload, environment) and commit with a
\* non-production environment, in the first history only
UpsertNonProduction(payload, environment) ==
    LET r == upsert_raw_job(raw_jobs, payload, environment) IN
    /\ pc = "idle"
    /\ environment /= PRODUCTION_ENV
    /\ Len(r.rows) <= MaxRaw
    /\ raw_jobs' = r.rows
    /\ ret' = [op |-> "upsert", payload |-> payload, environment |-> environment,
               inserted |-> r.inserted]
    /\ UNCHANGED <<jobs, job_skills, ingest_runs, settings_ENV, pc, run, upserted,
                   shadow>>
    /\ UNCHANGED <<registry, fetch, workers, trend>>

\* run_postprocess(session) in both histories
Postprocess ==
    LET r == run_postprocess(raw_jobs, jobs, job_skills)
        q == run_postprocess(shadow.raw_jobs, shadow.jobs, shadow.job_skills)
    IN
    /\ pc = "idle"
    /\ jobs' = r.jobs
    /\ job_skills' = r.job_skills
    /\ shadow' = [shadow EXCEPT !.jobs = q.jobs, !.job_skills = q.job_skills]
    /\ ret' = [op |-> "postprocess", ok |-> r.ok, inserted_jobs |-> r.inserted_jobs,
               inserted_skills |-> r.inserted_skills]
    /\ UNCHANGED <<raw_jobs, ingest_runs, settings_ENV, pc, run, upserted>>
    /\ UNCHANGED <<registry, fetch, workers, trend>>

NextNI ==
    \/ \E payload \in NIPayloads : UpsertProduction(payload)
    \/ \E payload \in NIPayloads, environment \in Environments \ {PRODUCTION_ENV} :
          UpsertNonProduction(payload, environment)
    \/ Postprocess

SpecNI == InitNI /\ [][NextNI]_vars

----------------------------------------------------------------------------
(* analytics/queries.py; the date and search filters are left at None *)

Min(a, b) == IF a <= b THEN a ELSE b

\* the join without the environment filter
base_job_query_AnyEnvironment(rows, table, source, environment) ==
    {jr \in (1..Len(table)) \X (1..Len(rows)) :
        /\ rows[jr[2]].payload_json.url /= None
        /\ rows[jr[2]].payload_json.url = table[jr[1]].url
        /\ (source /= None => rows[jr[2]].source = source[1])}

\* session.query(Job).join(RawJob, url_expr == Job.url) with the environment
\* and source filters: the rows of the join as (job, raw row) positions
base_job_query(rows, table, source, environment) ==
    {jr \in (1..Len(table)) \X (1..Len(rows)) :
        /\ rows[jr[2]].payload_json.url /= None
        /\ rows[jr[2]].payload_json.url = table[jr[1]].url
        /\ rows[jr[2]].environment = environment
        /\ (source /= None => rows[jr[2]].source = source[1])}

\* total_jobs is Query.count(): the number of rows of the join;
\* jobs_last_7d (date.today()) is not carried
get_kpis(rows, table, runs, source, environment) ==
    LET q == base_job_query(rows, table, source, environment) IN
    [total_jobs |-> Cardinality(q),
     unique_companies |->
        Cardinality({table[jr[1]].company : jr \in {x \in q : table[x[1]].company /= None}}),
     sources_count |->
        Cardinality({runs[i].source :
                        i \in {k \in 1..Len(runs) :
                                  /\ runs[k].status = "success"
                                  /\ runs[k].environment = environment}})]

\* JobSkill joined to Job and RawJob, filtered: (skill row, job, raw row)
TopSkillsJoin(rows, table, pairs, source, environment) ==
    {sjr \in (1..Len(pairs)) \X (1..Len(table)) \X (1..Len(rows)) :
        /\ table[sjr[2]].id = pairs[sjr[1]][1]
        /\ rows[sjr[3]].payload_json.url /= None
        /\ rows[sjr[3]].payload_json.url = table[sjr[2]].url
        /\ rows[sjr[3]].environment = environment
        /\ (source /= None => rows[sjr[3]].source = source[1])}

\* GROUP BY skill counting the rows of the join
TopSkillsGroups_CountRows(rows, table, pairs, source, environment) ==
    LET q == TopSkillsJoin(rows, table, pairs, source, environment) IN
    {[skill |-> sk, n |-> Cardinality({y \in q : pairs[y[1]][2] = sk})] :
        sk \in {pairs[x[1]][2] : x \in q}}

\* GROUP BY skill with count(distinct job_id)
TopSkillsGroups(rows, table, pairs, source, environment) ==
    LET q == TopSkillsJoin(rows, table, pairs, source, environment) IN
    {[skill |-> sk,
      n |-> Cardinality({pairs[x[1]][1] : x \in {y \in q : pairs[y[1]][2] = sk}})] :
        sk \in {pairs[x[1]][2] : x \in q}}

\* ORDER BY n DESC: the groups in every order the database may give
RECURSIVE OrderedByCountDesc(_)
OrderedByCountDesc(G) ==
    IF G = {} THEN {<<>>}
    ELSE UNION {{<<g>> \o rest : rest \in OrderedByCountDesc(G \ {g})} :
                  g \in {x \in G : \A y \in G : x.n >= y.n}}

\* the lists get_top_skills can return
get_top_skills(rows, table, pairs, source, limit, environment) ==
    {SubSeq(o, 1, Min(limit, Len(o))) :
        o \in OrderedByCountDesc(TopSkillsGroups(rows, table, pairs, source, environment))}

DefaultLimit == 20

----------------------------------------------------------------------------
(* analytics/queries.py: bucket_expr and get_skill_trends. A timestamp is
   [date, hour]: date counts the days from Monday 2026-01-12; a bucket is
   the value the database returns: [date, time], time None for a date *)

Timestamp(date, hour) == [date |-> date, hour |-> hour]

Granularities == {"6h", "day", "week"}
Dialects == {"sqlite", "postgresql"}

\* strftime('%w', ts): 0 = Sunday .. 6 = Saturday
strftime_w(ts) == (ts.date + 1) % 7

\* the day of the week date_trunc('week', ts) counts from: 1 = Monday .. 7
isodow(ts) == (ts.date % 7) + 1

\* what the server answers to a statement it cannot parse
ProgrammingError == Exception("ProgrammingError", <<"syntax error at or near \",\"">>)

\* a 6h expression for PostgreSQL written with extract(hour FROM ts)
bucket_expr_ExtractFrom(ts, bucket, dialect_name) ==
    [raised |-> None,
     value |-> CASE bucket = "6h" -> [date |-> ts.date, time |-> Some(6 * (ts.hour \div 6))]
                 [] bucket = "day" ->
                       [date |-> ts.date,
                        time |-> IF dialect_name = "postgresql" THEN Some(0) ELSE None]
                 [] OTHER ->
                       [date |-> ts.date - (ts.date % 7),
                        time |-> IF dialect_name = "postgresql" THEN Some(0) ELSE None]]

\* bucket_expr(ts_col, bucket, dialect_name) evaluated on one timestamp.
\* postgresql, 6h: func.extract("hour", ts_col) is a plain function call,
\* rendered extract('hour', raw_jobs.ingested_at); PostgreSQL's grammar has
\* EXTRACT(field FROM source) only, so the statement is rejected
bucket_expr(ts, bucket, dialect_name) ==
    IF dialect_name = "postgresql"
    THEN CASE bucket = "6h" -> [raised |-> Some(ProgrammingError), value |-> None]
           [] bucket = "day" ->
                 [raised |-> None, value |-> [date |-> ts.date, time |-> Some(0)]]
           [] OTHER ->
                 [raised |-> None,
                  value |-> [date |-> ts.date - (isodow(ts) - 1), time |-> Some(0)]]
    ELSE CASE bucket = "6h" ->
                 LET hour_int == ts.hour
                     bucket_hour == hour_int - (hour_int % 6)
                 IN [raised |-> None,
                     value |-> [date |-> ts.date, time |-> Some(bucket_hour)]]
           [] bucket = "day" ->
                 [raised |-> None, value |-> [date |-> ts.date, time |-> None]]
           [] OTHER ->
                 LET days_since_monday == (strftime_w(ts) + 6) % 7
                 IN [raised |-> None,
                     value |-> [date |-> ts.date - days_since_monday, time |-> None]]

\* a selection that takes a range of exactly 7 days for a long one
AutoGranularity_Under7(date_from, date_to) ==
    IF date_from /= None /\ date_to /= None
    THEN LET days == date_to[1] - date_from[1] IN
         IF days < 7 THEN "6h" ELSE IF days <= 60 THEN "day" ELSE "week"
    ELSE "6h"

\* lines 227-238, granularity None
AutoGranularity(date_from, date_to) ==
    IF date_from /= None /\ date_to /= None
    THEN LET days == date_to[1] - date_from[1] IN
         IF days <= 7 THEN "6h" ELSE IF days <= 60 THEN "day" ELSE "week"
    ELSE "6h"

\* the rows of the join that pass the filters of lines 251-267
SkillTrendsJoin(rows, table, pairs, skills, source, date_from, date_to, environment) ==
    {sjr \in TopSkillsJoin(rows, table, pairs,
                           IF TruthyStr(source) THEN source ELSE None, environment) :
        /\ pairs[sjr[1]][2] \in Range(skills)
        /\ date_from /= None => rows[sjr[3]].ingested_at.date >= date_from[1]
        /\ date_to /= None => rows[sjr[3]].ingested_at.date <= date_to[1]}

\* GROUP BY bucket, skill with count(distinct job_id)
SkillTrendsGroups(rows, pairs, q, granularity, dialect_name) ==
    LET B(x) == bucket_expr(rows[x[3]].ingested_at, granularity, dialect_name).value
    IN {[bucket |-> k[1], skill |-> k[2],
         count |-> Cardinality({pairs[y[1]][1] :
                                   y \in {z \in q : B(z) = k[1] /\ pairs[z[1]][2] = k[2]}})] :
           k \in {<<B(x), pairs[x[1]][2]>> : x \in q}}

BucketValue(b) == b.date * 24 + (IF b.time = None THEN 0 ELSE b.time[1])

\* ORDER BY bucket: the groups in every order the database may give
RECURSIVE OrderedByBucket(_)
OrderedByBucket(G) ==
    IF G = {} THEN {<<>>}
    ELSE UNION {{<<g>> \o rest : rest \in OrderedByBucket(G \ {g})} :
                  g \in {x \in G : \A y \in G : BucketValue(x.bucket) <= BucketValue(y.bucket)}}

\* get_skill_trends: the granularity it settles on, the exception the query
\* raises if any, and the lists it can return
get_skill_trends(rows, table, pairs, skills, source, date_from, date_to, granularity, environment, dialect_name) ==
    IF skills = <<>>
    THEN [granularity |-> granularity, raised |-> None, results |-> {<<>>}]
    ELSE LET g == IF granularity = None
                  THEN AutoGranularity(date_from, date_to) ELSE granularity[1]
             q == SkillTrendsJoin(rows, table, pairs, skills, source, date_from,
                                  date_to, environment)
         IN IF bucket_expr(Timestamp(0, 0), g, dialect_name).raised /= None
            THEN [granularity |-> Some(g),
                  raised |-> bucket_expr(Timestamp(0, 0), g, dialect_name).raised,
                  results |-> {}]
            ELSE [granularity |-> Some(g), raised |-> None,
                  results |-> OrderedByBucket(
                                  SkillTrendsGroups(rows, pairs, q, g, dialect_name))]

----------------------------------------------------------------------------
(* The skill-trend query on a seeded store (tests/test_bucket_expr.py) *)

MaxSeed == 4
LastDay == 7

TestTitle(i) == <<"T", "e", "s", "t", " ", "J", "o", "b", " ">> \o <<i>>
TestIndex == <<"0", "1", "2", "3", "4">>
TestUrl == <<"t0", "t1", "t2", "t3", "t4">>

\* the RawJob seed_jobs_with_times adds for times[i]
SeedRow(id, i, ts, environment) ==
    [id |-> id,
     source |-> "test_source",
     payload_json |->
        Payload(None, None, Some(TestUrl[i]), Some(TestTitle(TestIndex[i])),
                Some(<<"T", "e", "s", "t", "C", "o", "r", "p">>),
                Some(<<"R", "e", "m", "o", "t", "e">>),
                Some(isoformat(ts.date)),
                Some(<<"Python", "developer", "with", "Django", "and", "PostgreSQL",
                       "experience.">>),
                None),
     ingested_at |-> ts,
     environment |-> environment]

\* first and last hours of 6-hour blocks
SeedHours == {0, 5, 6, 17, 18, 23}

\* the lists of times the store is seeded with: one such hour of one of the
\* days 0..LastDay, the hours 01, 07, 13, 19 of Thursday 2026-01-15 (with 01:00 of
\* the next day), Monday, Wednesday and Friday of one week, and the last
\* hour of a Sunday with the first of the Monday after it
TimeLists ==
    {l \in {<<Timestamp(d, h)>> : d \in 0..LastDay, h \in SeedHours}
           \cup {<<Timestamp(3, 1), Timestamp(3, 7), Timestamp(3, 13), Timestamp(3, 19)>>,
                 <<Timestamp(3, 1), Timestamp(3, 7), Timestamp(3, 13), Timestamp(3, 19),
                   Timestamp(4, 1)>>,
                 <<Timestamp(0, 0), Timestamp(2, 0), Timestamp(4, 0)>>,
                 <<Timestamp(6, 23), Timestamp(7, 0)>>} :
        Len(l) <= MaxSeed}

\* seed_jobs_with_times(session, times, environment) on the empty store
SeedJobsWithTimes(times, environment) ==
    /\ pc = "idle"
    /\ raw_jobs = <<>>
    /\ raw_jobs' = [i \in 1..Len(times) |-> SeedRow(i, i, times[i], environment)]
    /\ UNCHANGED <<jobs, job_skills, ingest_runs, settings_ENV, pc, run, ret,
                   upserted, shadow, registry, fetch, workers, trend>>

TrendSkills == {<<>>, <<"python">>}
\* (date_from, date_to): no range, an open one, ranges of 7, 8, 60 and 61
\* days and one that ends before it starts
TrendRanges ==
    {<<None, None>>, <<Some(1), None>>, <<Some(1), Some(8)>>, <<Some(0), Some(8)>>,
     <<Some(1), Some(61)>>, <<Some(0), Some(61)>>, <<Some(8), Some(1)>>}

\* the numbers of rows of the tables, which only grow
StoreSize == <<Len(raw_jobs), Len(jobs), Len(job_skills)>>

\* get_skill_trends(session, skills, None, date_from, date_to, granularity,
\* environment) on a session bound to an engine of the dialect
SkillTrends(skills, date_from, date_to, granularity, environment, dialect_name) ==
    LET t == get_skill_trends(raw_jobs, jobs, job_skills, skills, None, date_from,
                              date_to, granularity, environment, dialect_name)
    IN /\ pc = "idle"
       /\ trend = NoTrend
       /\ IF t.raised /= None
          THEN trend' = [op |-> "get_skill_trends", skills |-> skills,
                         date_from |-> date_from, date_to |-> date_to,
                         granularity |-> granularity, environment |-> environment,
                         dialect_name |-> dialect_name, used |-> t.granularity,
                         raised |-> t.raised, result |-> <<>>,
                         seen |-> StoreSize]
          ELSE \E result \in t.results :
                  trend' = [op |-> "get_skill_trends", skills |-> skills,
                            date_from |-> date_from, date_to |-> date_to,
                            granularity |-> granularity, environment |-> environment,
                            dialect_name |-> dialect_name, used |-> t.granularity,
                            raised |-> None, result |-> result,
                            seen |-> StoreSize]
       /\ UNCHANGED <<raw_jobs, jobs, job_skills, ingest_runs, settings_ENV, pc, run,
                      ret, upserted, shadow, registry, fetch, workers>>

\* the caller is done with the list
DropTrends ==
    /\ trend /= NoTrend
    /\ trend' = NoTrend
    /\ UNCHANGED <<raw_jobs, jobs, job_skills, ingest_runs, settings_ENV, pc, run,
                   ret, upserted, shadow, registry, fetch, workers>>

NextTrends ==
    \/ \E times \in TimeLists : SeedJobsWithTimes(times, "test")
    \/ Transform
    \/ Extract
    \/ \E skills \in TrendSkills, range \in TrendRanges,
          granularity \in {None} \cup {Some(g) : g \in Granularities},
          dialect_name \in Dialects :
          SkillTrends(skills, range[1], range[2], granularity, "test", dialect_name)
    \/ DropTrends

SpecTrends == InitDefault /\ [][NextTrends]_vars

----------------------------------------------------------------------------
(* upsert_raw_job called on separate sessions. A session sees the committed
   rows and the rows it has flushed itself; workers[w] is the session of
   worker w: the call in progress, what its SELECT found, its flushed rows
   and what its last call returned *)

Workers == {1, 2}
RacePayloads == {P_A, P_Acopy}

IdleWorker == [pc |-> "idle", payload |-> None, exists |-> FALSE, pending |-> <<>>,
               returned |-> None]

\* rows flushed by any session, committed or not: ids come from one sequence
Flushed(W) == Len(raw_jobs) + Len(W[1].pending) + Len(W[2].pending)

\* lines 34-46: the SELECT of the dedup check on the session of worker w
RaceSelect(w, payload) ==
    /\ workers /= <<>>
    /\ workers[w].pc = "idle"
    /\ Flushed(workers) < MaxRaw
    /\ workers' = [workers EXCEPT
                      ![w].pc = "checked",
                      ![w].payload = Some(payload),
                      ![w].returned = None,
                      ![w].exists =
                          RawMatches(raw_jobs \o workers[w].pending, payload) /= {}]
    /\ UNCHANGED <<raw_jobs, jobs, job_skills, ingest_runs, settings_ENV, pc, run,
                   ret, upserted, shadow, registry, fetch, trend>>

\* an insert that repeats the SELECT on the rows committed by now
RaceInsert_Recheck(w) ==
    /\ workers /= <<>>
    /\ workers[w].pc = "checked"
    /\ IF RawMatches(raw_jobs \o workers[w].pending, workers[w].payload[1]) /= {}
       THEN workers' = [workers EXCEPT ![w].pc = "idle", ![w].returned = Some(FALSE)]
       ELSE workers' =
               [workers EXCEPT
                   ![w].pc = "idle",
                   ![w].returned = Some(TRUE),
                   ![w].pending =
                       Append(@, TagEnvironment(
                                    [NewRawJob(raw_jobs, workers[w].payload[1])
                                        EXCEPT !.id = Flushed(workers) + 1],
                                    settings_ENV))]
    /\ UNCHANGED <<raw_jobs, jobs, job_skills, ingest_runs, settings_ENV, pc, run,
                   ret, upserted, shadow, registry, fetch, trend>>

\* lines 47-52: return False, or session.add, session.flush and return True
RaceInsert(w) ==
    /\ workers /= <<>>
    /\ workers[w].pc = "checked"
    /\ IF workers[w].exists
       THEN workers' = [workers EXCEPT ![w].pc = "idle", ![w].returned = Some(FALSE)]
       ELSE workers' =
               [workers EXCEPT
                   ![w].pc = "idle",
                   ![w].returned = Some(TRUE),
                   ![w].pending =
                       Append(@, TagEnvironment(
                                    [NewRawJob(raw_jobs, workers[w].payload[1])
                                        EXCEPT !.id = Flushed(workers) + 1],
                                    settings_ENV))]
    /\ UNCHANGED <<raw_jobs, jobs, job_skills, ingest_runs, settings_ENV, pc, run,
                   ret, upserted, shadow, registry, fetch, trend>>

\* the caller's session.commit(): the flushed rows become visible to all
RaceCommit(w) ==
    /\ workers /= <<>>
    /\ workers[w].pc = "idle"
    /\ workers[w].pending /= <<>>
    /\ raw_jobs' = raw_jobs \o workers[w].pending
    /\ workers' = [workers EXCEPT ![w].pending = <<>>]
    /\ UNCHANGED <<jobs, job_skills, ingest_runs, settings_ENV, pc, run, ret,
                   upserted, shadow, registry, fetch, trend>>

InitRace ==
    /\ raw_jobs = <<>>
    /\ jobs = <<>>
    /\ job_skills = <<>>
    /\ ingest_runs = <<>>
    /\ settings_ENV \in Environments
    /\ pc = "idle"
    /\ run = NoRun
    /\ ret = NoRet
    /\ upserted = {}
    /\ shadow = EmptyStore
    /\ registry = NoSources
    /\ fetch = NoFetch
    /\ workers = <<IdleWorker, IdleWorker>>
    /\ trend = NoTrend

NextRace ==
    \/ \E w \in Workers, payload \in RacePayloads : RaceSelect(w, payload)
    \/ \E w \in Workers : RaceInsert(w)
    \/ \E w \in Workers : RaceCommit(w)

SpecRace == InitRace /\ [][NextRace]_vars

----------------------------------------------------------------------------
(* Properties of the sequential calls *)

IsPrefix(s, t) == Len(s) <= Len(t) /\ SubSeq(t, 1, Len(s)) = s

\* the fingerprint upsert_raw_job compares: the payload's own content_hash
\* when it carries one, else the hash of the eight canonical fields
Fingerprint(p) == WithContentHash(p).content_hash

\* q, upserted earlier, is what an upsert of p is matched against
SameIdentity(p, q) ==
    Fingerprint(q) = Fingerprint(p) /\ (TruthyStr(p.url) => q.url = p.url)

StoredCopies(rows, p) ==
    {i \in 1..Len(rows) : rows[i].payload_json = WithContentHash(p)}

\* C1 as stated: the first upsert of a payload returns true and adds exactly
\* one RawRecord; every later upsert of a payload with identical content
\* returns false and leaves the store unchanged.
C1_FirstUpsertInserts ==
    [][ret'.op = "upsert" =>
          IF ret'.payload \in upserted
          THEN ret'.inserted = FALSE /\ raw_jobs' = raw_jobs
          ELSE ret'.inserted = TRUE /\ Len(raw_jobs') = Len(raw_jobs) + 1]_vars

\* C1 amended: an upsert of a payload that matches no earlier upserted payload
\* in fingerprint (and url, when it has one) returns true and adds exactly one
\* RawRecord; every later upsert of a payload with identical content returns
\* false and leaves the store unchanged; a payload whose upsert returned true
\* stays stored exactly once.
C1_Idempotent ==
    [][ret'.op = "upsert" =>
          LET p == ret'.payload IN
          /\ p \in upserted => ret'.inserted = FALSE /\ raw_jobs' = raw_jobs
          /\ (\A q \in upserted : ~SameIdentity(p, q)) =>
                /\ ret'.inserted = TRUE
                /\ Len(raw_jobs') = Len(raw_jobs) + 1
                /\ IsPrefix(raw_jobs, raw_jobs')
          /\ ret'.inserted = TRUE => Cardinality(StoredCopies(raw_jobs', p)) = 1
          /\ \A q \in upserted :
                Cardinality(StoredCopies(raw_jobs, q)) = 1 =>
                    Cardinality(StoredCopies(raw_jobs', q)) = 1]_vars

\* a second upsert of a stored payload has returned false
C1_Witness ==
    /\ ret.op = "upsert"
    /\ ret.inserted = FALSE
    /\ Cardinality(StoredCopies(raw_jobs, ret.payload)) = 1

NoTwoJobsShareUrl ==
    \A i, k \in 1..Len(jobs) :
        i /= k /\ jobs[i].url /= None => jobs[i].url /= jobs[k].url

RawUrl(r) == r.payload_json.url

\* every row has a url and exactly one pair of rows has the same url
OneUrlTwice(rows) ==
    /\ \A i \in 1..Len(rows) : TruthyStr(RawUrl(rows[i]))
    /\ Cardinality({pr \in (1..Len(rows)) \X (1..Len(rows)) :
                       pr[1] < pr[2] /\ RawUrl(rows[pr[1]]) = RawUrl(rows[pr[2]])}) = 1

\* every row has a title, and rows with different urls have different
\* content hashes
TitledAndDistinct(rows) ==
    /\ \A i \in 1..Len(rows) : rows[i].payload_json.title /= None
    /\ \A i, k \in 1..Len(rows) :
          RawUrl(rows[i]) /= RawUrl(rows[k]) =>
              JobOf(rows[i], 0).hash /= JobOf(rows[k], 0).hash

NormTuple(j) ==
    <<lower(strip(OrEmpty(j.title))), lower(strip(OrEmpty(j.company))),
      lower(strip(OrEmpty(j.location))), j.posted_at>>

IsoDates == {"2025-12-30", "2025-12-31"}

\* C4: at most one Job exists per content hash: no two Jobs agree on the
\* trimmed, lower-cased title, company and location and on the parsed
\* posted_at, also when their urls differ; a Job's posted_at is a calendar
\* date or absent.
C4_OneJobPerContent ==
    /\ \A i, k \in 1..Len(jobs) :
          i /= k => /\ NormTuple(jobs[i]) /= NormTuple(jobs[k])
                    /\ jobs[i].hash /= jobs[k].hash
    /\ \A i \in 1..Len(jobs) :
          jobs[i].posted_at = None \/ jobs[i].posted_at[1] \in IsoDates

\* after a Transform a stored payload with a url no Job has is represented
\* by a Job that spells the title differently
C4_Witness ==
    /\ ret.op = "transform"
    /\ ret.ok
    /\ \E i \in 1..Len(raw_jobs), k \in 1..Len(jobs) :
          LET j == JobOf(raw_jobs[i], 0) IN
          /\ TruthyStr(j.url)
          /\ \A n \in 1..Len(jobs) : jobs[n].url /= j.url
          /\ j.title /= jobs[k].title
          /\ NormTuple(j) = NormTuple(jobs[k])

\* C5: extract_skills_for_all_jobs returns the number of pairs it inserted,
\* a call right after another returns 0, no call removes a pair, and the
\* table never holds a (job_id, skill) pair twice.
C5_ExtractIdempotent ==
    /\ [](\A i, k \in 1..Len(job_skills) : i /= k => job_skills[i] /= job_skills[k])
    /\ [][/\ IsPrefix(job_skills, job_skills')
          /\ ret'.op = "extract" =>
                /\ ret'.ok
                /\ ret'.inserted = Len(job_skills') - Len(job_skills)
                /\ ret.op = "extract" => ret'.inserted = 0]_vars

\* a second extraction has returned 0 on a non-empty table
C5_Witness ==
    /\ ret.op = "extract"
    /\ ret.inserted = 0
    /\ Len(job_skills) >= 2

----------------------------------------------------------------------------
(* Properties of run_ingest and of the environment tag *)

LastRow(rows) == rows[Len(rows)]

C6_RunStateMachine ==
    [][/\ Len(ingest_runs') >= Len(ingest_runs)
       /\ \A i \in 1..Len(ingest_runs) :
             ingest_runs'[i] /= ingest_runs[i] =>
                 /\ ingest_runs[i].status = "running"
                 /\ ingest_runs'[i].status \in {"success", "failed"}
       /\ \A i \in (Len(ingest_runs) + 1)..Len(ingest_runs') :
             ingest_runs'[i].status = "running"]_vars

\* a later run has ended after an earlier one ended in the other status
C6_Witness ==
    /\ Len(ingest_runs) >= 2
    /\ ingest_runs[1].status = "failed"
    /\ ingest_runs[2].status = "success"
    /\ pc = "idle"

\* the row of the run_ingest call that has just returned normally is complete
RunRowComplete(row, res) ==
    /\ row.status = "success"
    /\ row.finished_at /= None
    /\ row.error = None
    /\ row.fetched = res.fetched
    /\ row.inserted_raw = res.inserted_raw
    /\ row.inserted_jobs = res.inserted_jobs
    /\ row.inserted_skills = res.inserted_skills

\* the call that returns created exactly one row, the last one, and its
\* search is null exactly for the empty search string
OneRowPerCall ==
    [][pc = "finish" /\ pc' = "idle" =>
          /\ Len(ingest_runs') = Len(ingest_runs)
          /\ run.id = Len(ingest_runs)
          /\ \A i \in 1..(Len(ingest_runs) - 1) : ingest_runs'[i] = ingest_runs[i]
          /\ ingest_runs'[run.id].search =
                IF run.call.search = "" THEN None ELSE Some(run.call.search)]_vars

\* C7 as stated: when run_ingest returns normally its row has status success,
\* finished_at set, error null, the counters of the result and warnings equal
\* to the returned warnings.
C7_RowEqualsResult ==
    (ret.op = "run_ingest" /\ ret.raised = None) =>
        /\ RunRowComplete(ingest_runs[ret.run_id], ret.result[1])
        /\ ingest_runs[ret.run_id].warnings = Some(ret.result[1].warnings)

\* C7 amended: when run_ingest returns normally it has created exactly one
\* row, with status success, finished_at set, error null, the counters of the
\* result, and warnings equal to the returned warnings when there are any and
\* null when the returned list is empty.
C7_SuccessRow ==
    /\ [](ret.op = "run_ingest" /\ ret.raised = None =>
            /\ RunRowComplete(ingest_runs[ret.run_id], ret.result[1])
            /\ ingest_runs[ret.run_id].warnings =
                  IF ret.result[1].warnings /= <<>>
                  THEN Some(ret.result[1].warnings) ELSE None)
    /\ OneRowPerCall

\* a run has returned with a warning and an inserted record
C7_Witness ==
    /\ ret.op = "run_ingest"
    /\ ret.raised = None
    /\ ret.result[1].warnings /= <<>>
    /\ ret.result[1].inserted_raw >= 1
    /\ ret.result[1].inserted_skills >= 1
    /\ ingest_runs[ret.run_id].warnings = Some(ret.result[1].warnings)

JobsOfEnvironment(E) ==
    {j \in 1..Len(jobs) :
        \E r \in 1..Len(raw_jobs) :
            /\ raw_jobs[r].environment = E
            /\ raw_jobs[r].payload_json.url = jobs[j].url}

\* C9: total_jobs and the top skills of environment E count only Jobs whose
\* url is the url of a RawRecord tagged E; with no RawRecord tagged E,
\* total_jobs is 0 and the skill list is empty.
C9_EnvironmentIsolation ==
    \A E \in Environments :
        LET kpis == get_kpis(raw_jobs, jobs, ingest_runs, None, E)
            tops == get_top_skills(raw_jobs, jobs, job_skills, None, DefaultLimit, E)
        IN /\ kpis.total_jobs = 0 <=> JobsOfEnvironment(E) = {}
           /\ kpis.total_jobs >= Cardinality(JobsOfEnvironment(E))
           /\ \A t \in tops : \A i \in 1..Len(t) :
                 t[i].n = Cardinality({j \in JobsOfEnvironment(E) :
                                         <<jobs[j].id, t[i].skill>> \in Range(job_skills)})
           /\ (\A r \in 1..Len(raw_jobs) : raw_jobs[r].environment /= E) =>
                 kpis.total_jobs = 0 /\ tops = {<<>>}

\* Jobs and skills exist, none of them from a production record, and the
\* environment they were ingested under sees them
C9_Witness ==
    /\ job_skills /= <<>>
    /\ raw_jobs /= <<>>
    /\ \A r \in 1..Len(raw_jobs) : raw_jobs[r].environment \in {"development", "test"}
    /\ get_kpis(raw_jobs, jobs, ingest_runs, None, PRODUCTION_ENV).total_jobs = 0
    /\ get_kpis(raw_jobs, jobs, ingest_runs, None, settings_ENV).total_jobs = 1
    /\ \E t \in get_top_skills(raw_jobs, jobs, job_skills, None, DefaultLimit, settings_ENV) :
          Len(t) = 2

\* C10: two histories with the same production upserts and postprocessing
\* passes, one of them with additional upserts tagged development or test,
\* give the same get_kpis and get_top_skills for environment production after
\* Transform and Skill Extraction.
C10_NonInterference ==
    ret.op = "postprocess" =>
        /\ get_kpis(raw_jobs, jobs, ingest_runs, None, PRODUCTION_ENV)
             = get_kpis(shadow.raw_jobs, shadow.jobs, ingest_runs, None, PRODUCTION_ENV)
        /\ get_top_skills(raw_jobs, jobs, job_skills, None, DefaultLimit, PRODUCTION_ENV)
             = get_top_skills(shadow.raw_jobs, shadow.jobs, shadow.job_skills, None,
                              DefaultLimit, PRODUCTION_ENV)

----------------------------------------------------------------------------
(* Properties of the analytics queries *)

\* the skill names in ascending order
SkillNamesAscending ==
    <<"aws", "ci", "docker", "fastapi", "pandas", "postgres", "pytest", "python",
      "scikit-learn", "sql">>

NameBefore(a, b) ==
    \E i, k \in 1..Len(SkillNamesAscending) :
        i < k /\ SkillNamesAscending[i] = a /\ SkillNamesAscending[k] = b

\* C11: get_top_skills returns at most limit entries, ordered by count
\* descending and among equal counts by skill name ascending, so that the
\* stored data determine the result.
C11_TopSkillsDetermined ==
    \A limit \in {1, DefaultLimit} :
        LET R == get_top_skills(raw_jobs, jobs, job_skills, None, limit, settings_ENV) IN
        /\ Cardinality(R) = 1
        /\ \A t \in R :
              /\ Len(t) <= limit
              /\ \A i, k \in 1..Len(t) :
                    i < k => \/ t[i].n > t[k].n
                             \/ t[i].n = t[k].n /\ NameBefore(t[i].skill, t[k].skill)

\* the Jobs of environment E that carry the skill
JobsWithSkill(E, skill) ==
    {j \in JobsOfEnvironment(E) : <<jobs[j].id, skill>> \in Range(job_skills)}

\* the raw rows of environment E with the url of Job j
MatchingRecords(E, j) ==
    {r \in 1..Len(raw_jobs) :
        raw_jobs[r].environment = E /\ raw_jobs[r].payload_json.url = jobs[j].url}

\* C12: the count get_top_skills reports for a skill is the number of distinct
\* Jobs with that skill that pass the filters, also when several RawRecords
\* match the url of one Job; every skill of such a Job is reported.
C12_DistinctJobCount ==
    \A t \in get_top_skills(raw_jobs, jobs, job_skills, None, DefaultLimit, settings_ENV) :
        /\ \A i \in 1..Len(t) :
              /\ t[i].n = Cardinality(JobsWithSkill(settings_ENV, t[i].skill))
              /\ t[i].n <= Len(jobs)
        /\ {t[i].skill : i \in 1..Len(t)} =
              {sk \in Range(SkillNamesAscending) : JobsWithSkill(settings_ENV, sk) /= {}}

\* a Job matched by two RawRecords is reported once for its skill
C12_Witness ==
    \E j \in 1..Len(jobs) :
        /\ Cardinality(MatchingRecords(settings_ENV, j)) >= 2
        /\ \E t \in get_top_skills(raw_jobs, jobs, job_skills, None, DefaultLimit,
                                    settings_ENV) :
              \E i \in 1..Len(t) :
                  /\ t[i].n = 1
                  /\ JobsWithSkill(settings_ENV, t[i].skill) = {j}

\* C13: total_jobs is the number of Job rows that pass the filters, each Job
\* counted once, and never exceeds the number of rows of the Job table.
C13_TotalJobsCountsJobs ==
    LET kpis == get_kpis(raw_jobs, jobs, ingest_runs, None, settings_ENV) IN
    /\ kpis.total_jobs = Cardinality(JobsOfEnvironment(settings_ENV))
    /\ kpis.total_jobs <= Len(jobs)

----------------------------------------------------------------------------
(* etl/sources/arbeitnow.py *)

MAX_RETRIES == 3
RETRY_BACKOFF_SECONDS == 5
max_pages == 10

MaxPageJobs == 2
MaxLimit == 2

\* one element of the API's "data" array
ArbJob(slug, url, title, company_name, location, description, created_at) ==
    [slug |-> slug, url |-> url, title |-> title, company_name |-> company_name,
     location |-> location, description |-> description, created_at |-> created_at]

J_Arb == ArbJob(Some("s4"), Some("u4"), Some(T_ops), Some(C_y), Some(L_b),
                Some(<<"Docker", "postgresql">>), Some(1768003200))
\* a posting the API sends without a url
J_NoUrl == ArbJob(Some("s5"), None, Some(T_ops), Some(C_y), Some(L_b),
                  Some(<<"Docker">>), None)

ArbJobs == {J_Arb, J_NoUrl}

\* datetime.fromtimestamp(created_at, tz=UTC).isoformat()
fromtimestamp(created_at) ==
    CASE created_at = 1768003200 -> "2026-01-10T00:00:00+00:00"

\* hashlib.md5(url.encode()).hexdigest()[:16]
UrlDigest(url) == [alg |-> "md5", blob |-> url, chars |-> 16]

\* _normalize_job(job): None when url or title is missing
normalize_job(job) ==
    IF ~TruthyStr(job.url) \/ ~TruthySeq(job.title) THEN None
    ELSE LET description == IF job.description = None THEN <<>> ELSE job.description[1]
         IN Some(Payload(
                Some("arbeitnow"),
                IF TruthyStr(job.slug) THEN job.slug ELSE Some(UrlDigest(job.url[1])),
                job.url,
                job.title,
                job.company_name,
                job.location,
                IF job.created_at /= None
                THEN Some(fromtimestamp(job.created_at[1])) ELSE None,
                Some(description),
                Some(arbeitnow_content_hash(job.title[1], OrEmpty(job.company_name),
                                            description))))

\* f"{x}" of an optional character sequence
Format(o) == IF o = None THEN <<"N", "o", "n", "e">> ELSE o[1]

\* search_lower in f"{title} {company} {description}".lower(); the words of
\* the description are kept whole, the search string is a character sequence
SearchMatches(search, payload) ==
    Search(lower(search),
           lower(payload.title[1]) \o <<" ">> \o lower(Format(payload.company))
           \o <<" ">> \o LowerText(payload.description[1]))

\* lines 89-107: the loop over the jobs of one page
RECURSIVE AddJobs(_, _, _, _, _)
AddJobs(page_jobs, k, payloads, search, limit) ==
    IF k > Len(page_jobs) \/ Len(payloads) >= limit THEN payloads
    ELSE LET payload == normalize_job(page_jobs[k]) IN
         IF payload = None
         THEN AddJobs(page_jobs, k + 1, payloads, search, limit)
         ELSE IF TruthySeq(search) /\ ~SearchMatches(search[1], payload[1])
         THEN AddJobs(page_jobs, k + 1, payloads, search, limit)
         ELSE AddJobs(page_jobs, k + 1, Append(payloads, payload[1]), search, limit)

\* line 80: the condition of the while loop
WhileCondition(page, payloads, limit) == page <= max_pages /\ Len(payloads) < limit

\* what the server can answer to one request: 429, a failure that requests
\* raises (connection error, raise_for_status), a body that is not JSON, or
\* a page of jobs with or without links.next
Responses ==
    {[kind |-> k, data |-> <<>>, next |-> FALSE] : k \in {"429", "error", "badjson"}}
    \cup {[kind |-> "ok", data |-> d, next |-> n] :
             d \in SeqsUpTo(ArbJobs, MaxPageJobs), n \in BOOLEAN}

\* a retry loop that gives up one attempt late
RetriesExhausted_OneMore(attempt) == attempt > MAX_RETRIES

\* line 36: range(MAX_RETRIES) is used up after this attempt
RetriesExhausted(attempt) == attempt >= MAX_RETRIES

\* the state of fetch_arbeitnow_jobs after the answer to one request of
\* _fetch_page_with_retry; f.attempt counts the requests made for f.page
AfterResponse(f, resp) ==
    LET g == [f EXCEPT !.requests = f.requests + 1, !.attempt = f.attempt + 1] IN
    CASE resp.kind = "429" ->
            [g EXCEPT !.waits = Append(f.waits, RETRY_BACKOFF_SECONDS * (f.attempt + 1)),
                      !.state = IF RetriesExhausted(f.attempt + 1)
                                THEN "done" ELSE "request"]
      [] resp.kind \in {"error", "badjson"} -> [g EXCEPT !.state = "done"]
      [] resp.kind = "ok" ->
            IF resp.data = <<>> THEN [g EXCEPT !.state = "done"]
            ELSE LET payloads == AddJobs(resp.data, 1, f.payloads, f.search, f.limit) IN
                 IF ~resp.next
                 THEN [g EXCEPT !.payloads = payloads, !.state = "done"]
                 ELSE [g EXCEPT !.payloads = payloads,
                                !.page = f.page + 1,
                                !.attempt = 0,
                                !.waits = <<>>,
                                !.state = IF WhileCondition(f.page + 1, payloads, f.limit)
                                          THEN "request" ELSE "done"]

----------------------------------------------------------------------------
(* Calls on the source registry: get_source, register_source and
   fetch_from_source, the arbeitnow fetch request by request *)

SourceNames == Range(SOURCES) \cup {"nosuch"}

\* a remotive posting the API sends without a url, and without url and title
P_RemNoUrl == [P_A EXCEPT !.url = None]
P_RemBare == [P_A EXCEPT !.url = None, !.title = None]
\* a remoteok posting with neither position nor title
P_OkNoTitle == [P_Acopy EXCEPT !.title = Some(<<>>)]

ConnectionError == Exception("ConnectionError", <<"Connection refused">>)
JSONDecodeError == Exception("JSONDecodeError", <<"Expecting value">>)
TooManyRequests == Exception("HTTPError", <<"429 Client Error">>)

\* what fetch(search, limit) of remotive and remoteok can answer: requests.get,
\* resp.raise_for_status() and resp.json() are not guarded
SourceAnswers(name) ==
    LET P == CASE name = "remotive" -> {P_A, P_NoTitle, P_RemNoUrl, P_RemBare}
               [] name = "remoteok" -> {P_Acopy, P_OkNoTitle}
               [] OTHER -> {}
    IN {[raised |-> None, payloads |-> l] : l \in SeqsUpTo(P, MaxFetch)}
       \cup {[raised |-> Some(e), payloads |-> <<>>] :
                e \in {HTTPError, TooManyRequests, ConnectionError, JSONDecodeError}}

\* no search, "", one that matches the title of J_Arb and one that matches nothing
Searches == {None, Some(<<>>), Some(<<"O", "P">>), Some(<<"z">>)}

\* get_source(name)
GetSource(name) ==
    LET g == get_source(registry, name) IN
    /\ fetch = NoFetch
    /\ registry' = g.registry
    /\ ret' = [op |-> "get_source", name |-> name, raised |-> g.raised,
               source |-> IF g.raised = None THEN Some([name |-> g.source]) ELSE None,
               before |-> registry]
    /\ UNCHANGED <<raw_jobs, jobs, job_skills, ingest_runs, settings_ENV, pc, run,
                   upserted, shadow, fetch, workers, trend>>

\* register_source(source): an adapter module imported by a script or a test
RegisterSource(name) ==
    /\ fetch = NoFetch
    /\ registry' = [registry EXCEPT !.sources = register_source(registry.sources, name)]
    /\ ret' = [op |-> "register_source", name |-> name, before |-> registry]
    /\ UNCHANGED <<raw_jobs, jobs, job_skills, ingest_runs, settings_ENV, pc, run,
                   upserted, shadow, fetch, workers, trend>>

\* fetch_from_source(source_name, search, limit) on remotive, remoteok or an
\* unknown name
FetchFromSource(source_name, outcome) ==
    LET f == fetch_from_source(registry, source_name, outcome) IN
    /\ fetch = NoFetch
    /\ registry' = f.registry
    /\ ret' = [op |-> "fetch_from_source", source_name |-> source_name,
               answer |-> IF f.raised = None \/ f.raised = outcome.raised
                          THEN Some(outcome) ELSE None,
               raised |-> f.raised, valid |-> f.valid, warnings |-> f.warnings,
               before |-> registry]
    /\ UNCHANGED <<raw_jobs, jobs, job_skills, ingest_runs, settings_ENV, pc, run,
                   upserted, shadow, fetch, workers, trend>>

\* fetch_from_source("arbeitnow", search, limit) up to the first request of
\* ArbeitnowSource.fetch, which passes search or None
ArbFetchStart(search, limit) ==
    LET g == get_source(registry, "arbeitnow") IN
    /\ fetch = NoFetch
    /\ registry' = g.registry
    /\ fetch' = [search |-> IF TruthySeq(search) THEN search ELSE None,
                 limit |-> limit,
                 page |-> 1,
                 attempt |-> 0,
                 waits |-> <<>>,
                 payloads |-> <<>>,
                 requests |-> 0,
                 state |-> IF WhileCondition(1, <<>>, limit) THEN "request" ELSE "done"]
    /\ ret' = NoRet
    /\ UNCHANGED <<raw_jobs, jobs, job_skills, ingest_runs, settings_ENV, pc, run,
                   upserted, shadow, workers, trend>>

\* one requests.get of _fetch_page_with_retry and what follows its answer
ArbRequest(resp) ==
    /\ fetch /= NoFetch
    /\ fetch.state = "request"
    /\ fetch' = AfterResponse(fetch, resp)
    /\ UNCHANGED <<raw_jobs, jobs, job_skills, ingest_runs, settings_ENV, pc, run,
                   ret, upserted, shadow, registry, workers, trend>>

\* fetch_arbeitnow_jobs returns and fetch_from_source validates the list
ArbFetchReturn ==
    /\ fetch /= NoFetch
    /\ fetch.state = "done"
    /\ LET v == validate_payloads(fetch.payloads, "arbeitnow") IN
       ret' = [op |-> "fetch_from_source", source_name |-> "arbeitnow",
               answer |-> Some([raised |-> None, payloads |-> fetch.payloads]),
               raised |-> None, valid |-> v.valid, warnings |-> v.warnings,
               before |-> registry, limit |-> fetch.limit,
               requests |-> fetch.requests]
    /\ fetch' = NoFetch
    /\ UNCHANGED <<raw_jobs, jobs, job_skills, ingest_runs, settings_ENV, pc, run,
                   upserted, shadow, registry, workers, trend>>

NextSources ==
    \/ \E name \in SourceNames : GetSource(name)
    \/ \E name \in {"remotive", "fake"} : RegisterSource(name)
    \/ \E source_name \in SourceNames \ {"arbeitnow"} :
          \E outcome \in SourceAnswers(source_name) :
              FetchFromSource(source_name, outcome)
    \/ \E search \in Searches, limit \in 0..MaxLimit : ArbFetchStart(search, limit)
    \/ \E resp \in Responses : ArbRequest(resp)
    \/ ArbFetchReturn

SpecSources == InitDefault /\ [][NextSources]_vars

----------------------------------------------------------------------------
(* Properties of the source registry and the adapters *)

HasRequired(payload) ==
    /\ TruthyStr(payload.source)
    /\ TruthyStr(payload.url)
    /\ TruthySeq(payload.title)

MissingKeys(payload) ==
    (IF TruthyStr(payload.source) THEN {} ELSE {"source"})
    \cup (IF TruthyStr(payload.url) THEN {} ELSE {"url"})
    \cup (IF TruthySeq(payload.title) THEN {} ELSE {"title"})

\* (valid, warnings) is the split of the adapter's list L: valid is L without
\* its rejected payloads, warnings has one entry per rejected payload, in
\* order, with its 0-based position in L and its missing keys
ValidSplit(L, valid, warnings, source_name) ==
    /\ valid = SelectSeq(L, HasRequired)
    /\ Len(valid) + Len(warnings) = Len(L)
    /\ {w.index : w \in Range(warnings)} = {i - 1 : i \in {k \in 1..Len(L) : ~HasRequired(L[k])}}
    /\ \A k \in 1..Len(warnings) :
          /\ k > 1 => warnings[k - 1].index < warnings[k].index
          /\ warnings[k].source = source_name
          /\ Range(warnings[k].missing) = MissingKeys(L[warnings[k].index + 1])
          /\ warnings[k].missing /= <<>>

\* the last call was fetch_from_source and its adapter answered with a list
AdapterAnswered ==
    /\ ret.op = "fetch_from_source"
    /\ ret.answer /= None
    /\ ret.answer[1].raised = None

\* C14: fetch_from_source does not raise because of an invalid payload: when
\* the adapter returns a list L, the call returns (valid, warnings) where
\* valid is the sub-sequence of L, in order, of the payloads having source,
\* url and title, warnings has one entry per rejected payload naming its
\* position in L and its missing keys, and len(valid) + len(warnings) = len(L)
C14_ValidateSplits ==
    AdapterAnswered =>
        /\ ret.raised = None
        /\ ValidSplit(ret.answer[1].payloads, ret.valid, ret.warnings, ret.source_name)

C14_Witness ==
    /\ AdapterAnswered
    /\ ret.answer[1].payloads = <<P_A, P_RemBare>>
    /\ ret.valid = <<P_A>>
    /\ ret.warnings = <<Warning("remotive", 1, <<"url", "title">>)>>

\* the names get_source can find: those registered by the time the lookup is
\* made, which is after the registry's first-use initialisation
NamesOf(reg) == Range(reg.sources)

\* C15 as stated: get_source(name) for a name that is not registered fails
\* and leaves the registry (_SOURCES and _initialized) as it was before the call
C15_RegistryUnchanged ==
    (ret.op = "get_source" /\ ret.raised /= None) => registry = ret.before

\* C15: get_source(name) returns the adapter whose name is the requested name
\* when the name is registered once the registry is initialised; otherwise it
\* returns no adapter and fails with the ValueError that names the requested
\* name and the registered names; it adds no entry for the name: the only
\* change it makes to the registry is the first-use initialisation, which
\* registers the built-in adapters, and an initialised registry is left as
\* it was
C15_GetSource ==
    ret.op = "get_source" =>
        /\ registry.initialized
        /\ NamesOf(registry) =
              NamesOf(ret.before)
              \cup (IF ret.before.initialized THEN {} ELSE Range(SOURCES))
        /\ ret.before.initialized => registry = ret.before
        /\ IF ret.name \in NamesOf(registry)
           THEN /\ ret.raised = None
                /\ ret.source = Some([name |-> ret.name])
           ELSE /\ ret.source = None
                /\ ret.raised /= None
                /\ ret.raised[1].type = "ValueError"
                /\ ret.raised[1].msg[2] = ret.name
                /\ SubSeq(ret.raised[1].msg, 4, Len(ret.raised[1].msg)) = registry.sources

C15_Witness ==
    /\ ret.op = "get_source"
    /\ ret.name = "nosuch"
    /\ ret.raised /= None
    /\ ~ret.before.initialized
    /\ "fake" \in NamesOf(ret.before)

\* C16: no registered adapter lets a failed request through: fetch_from_source
\* on arbeitnow, remoteok or remotive raises nothing when the request fails
\* with a network error, a rate-limit response or malformed JSON
C16_NoAdapterPropagates ==
    (ret.op = "fetch_from_source" /\ ret.source_name \in Range(SOURCES)) =>
        ret.raised = None

\* the requests of the fetch in progress stay within the retry and page limits
BoundedWork ==
    fetch /= NoFetch =>
        /\ fetch.page \in 1..(max_pages + 1)
        /\ fetch.state = "request" => fetch.page <= max_pages
        /\ fetch.attempt \in 0..MAX_RETRIES
        /\ fetch.state = "request" => fetch.attempt < MAX_RETRIES
        /\ fetch.requests <= (fetch.page - 1) * MAX_RETRIES + fetch.attempt
        /\ fetch.requests <= max_pages * MAX_RETRIES
        /\ Len(fetch.payloads) <= fetch.limit
        /\ Len(fetch.waits) <= fetch.attempt
        /\ fetch.state = "request" => Len(fetch.waits) = fetch.attempt
        /\ \A i \in 1..Len(fetch.waits) : fetch.waits[i] = RETRY_BACKOFF_SECONDS * i

\* what fetch_from_source("arbeitnow", ...) returned
BoundedResult ==
    (ret.op = "fetch_from_source" /\ ret.source_name = "arbeitnow") =>
        /\ ret.raised = None
        /\ ret.requests <= max_pages * MAX_RETRIES
        /\ Len(ret.answer[1].payloads) <= ret.limit
        /\ Len(ret.valid) <= ret.limit

\* every step of a fetch in progress is one more request, or its return
OneRequestPerStep ==
    (fetch /= NoFetch /\ fetch' /= fetch) =>
        IF fetch.state = "request"
        THEN fetch' /= NoFetch /\ fetch'.requests = fetch.requests + 1
        ELSE fetch' = NoFetch

\* the third 429 on a page ends the fetch with the payloads collected so far
GivesUpAfterRetries ==
    /\ (fetch /= NoFetch /\ fetch' /= NoFetch /\ fetch'.requests > fetch.requests
        /\ Len(fetch'.waits) = MAX_RETRIES)
          => /\ fetch'.state = "done"
             /\ fetch'.page = fetch.page
             /\ fetch'.payloads = fetch.payloads
    /\ (fetch /= NoFetch /\ fetch.state = "done" /\ fetch' = NoFetch)
          => /\ ret'.answer = Some([raised |-> None, payloads |-> fetch.payloads])
             /\ ret'.requests = fetch.requests

\* C17: the arbeitnow fetch does bounded work: a page answered with 429 is
\* requested at most MAX_RETRIES times, each 429 followed by a back-off wait
\* that grows with the attempt; after the last one the adapter gives up on
\* the page and on the remaining pages and returns the payloads collected so
\* far; whatever the server answers, the fetch makes at most
\* max_pages * MAX_RETRIES requests, each step of it is one more request, and
\* it returns at most limit payloads
C17_BoundedFetch ==
    /\ [](BoundedWork /\ BoundedResult)
    /\ [][OneRequestPerStep /\ GivesUpAfterRetries]_vars

C17_Witness ==
    /\ fetch /= NoFetch
    /\ fetch.state = "done"
    /\ fetch.waits = <<5, 10, 15>>
    /\ fetch.page = 2
    /\ fetch.requests = 6
    /\ fetch.payloads = <<P_Arb>>

----------------------------------------------------------------------------
(* Properties of the skill-trend query *)

\* the granularity the claim gives for a range of date_to - date_from days
RangeGranularity(days) ==
    IF days <= 7 THEN "6h" ELSE IF days > 7 /\ days <= 60 THEN "day" ELSE "week"

\* the last call was get_skill_trends and the store is as it queried it
Queried ==
    /\ trend.op = "get_skill_trends"
    /\ trend.seen = StoreSize

\* the lists the query gives when it buckets by granularity g
TrendsWith(g) ==
    get_skill_trends(raw_jobs, jobs, job_skills, trend.skills, None, trend.date_from,
                     trend.date_to, Some(g), trend.environment, trend.dialect_name)

\* the last query settled on granularity g and its result is bucketed by it
Uses(g) ==
    /\ trend.used = Some(g)
    /\ trend.raised = TrendsWith(g).raised
    /\ trend.raised = None => trend.result \in TrendsWith(g).results

\* C18: get_skill_trends with no granularity given and both dates given
\* buckets by 6h when date_to - date_from is at most 7 days, by day when it
\* is more than 7 and at most 60 days, and by week when it is longer; a given
\* granularity is used as given; an empty skills list gives an empty result
C18_GranularitySelection ==
    Queried =>
        IF trend.skills = <<>>
        THEN trend.raised = None /\ trend.result = <<>>
        ELSE /\ trend.granularity /= None => Uses(trend.granularity[1])
             /\ (trend.granularity = None /\ trend.date_from /= None
                 /\ trend.date_to /= None)
                   => Uses(RangeGranularity(trend.date_to[1] - trend.date_from[1]))

C18_Witness ==
    /\ Queried
    /\ trend.granularity = None
    /\ trend.date_from = Some(1)
    /\ trend.date_to = Some(8)
    /\ trend.dialect_name = "sqlite"
    /\ trend.used = Some("6h")
    /\ Len(trend.result) = 4
    /\ trend.result[2].bucket = [date |-> 3, time |-> Some(6)]
    /\ trend.result[2].count = 1

\* the instant a bucket value denotes: a date is its midnight
BucketStart(b) == Timestamp(b.date, IF b.time = None THEN 0 ELSE b.time[1])

\* the bucket start the claim gives
ClaimedStart(ts, g) ==
    CASE g = "6h" -> Timestamp(ts.date, 6 * (ts.hour \div 6))
      [] g = "day" -> Timestamp(ts.date, 0)
      [] g = "week" ->
            Timestamp(CHOOSE m \in (ts.date - 6)..ts.date : m % 7 = 0, 0)

\* both engines give the claimed bucket start for ts
SameBucket(ts, g) ==
    \A d \in Dialects :
        /\ bucket_expr(ts, g, d).raised = None
        /\ BucketStart(bucket_expr(ts, g, d).value) = ClaimedStart(ts, g)

\* the store holds records at 01:00, 07:00, 13:00 and 19:00 of one day, and
\* the last query counted python over all of them
FourTimesOfOneDay ==
    /\ Len(raw_jobs) = 4
    /\ \A i \in 1..4 : raw_jobs[i].ingested_at = Timestamp(3, 6 * (i - 1) + 1)
    /\ Len(job_skills) > 0
    /\ Queried
    /\ trend.skills = <<"python">>
    /\ trend.date_from = None
    /\ trend.date_to = None
    /\ trend.granularity /= None

BucketsPerGranularity(g) == IF g = "6h" THEN 4 ELSE 1

BucketsAgreeExceptSixHourOnPostgres ==
    \A i \in 1..Len(raw_jobs), g \in Granularities :
        LET ts == raw_jobs[i].ingested_at IN
        /\ BucketStart(bucket_expr(ts, g, "sqlite").value) = ClaimedStart(ts, g)
        /\ bucket_expr(ts, g, "sqlite").raised = None
        /\ g /= "6h" => SameBucket(ts, g)

----------------------------------------------------------------------------
(* Properties of concurrent upserts *)

\* worker w completes the write of a call whose SELECT found nothing
WritesAfterEmptyCheck(w) ==
    /\ workers[w].pc = "checked"
    /\ ~workers[w].exists
    /\ workers'[w] /= workers[w]

\* C20: the dedup check of upsert_raw_job is a read followed by a separate
\* write with nothing atomic between them: a call whose SELECT found no
\* record inserts and returns true whatever other sessions have flushed or
\* committed since; so two calls for one payload on separate sessions can
\* both find nothing, both insert and both return true, which leaves two
\* RawRecords with the same fingerprint and url
C20_CheckThenInsert ==
    [][\A w \in Workers :
          WritesAfterEmptyCheck(w) =>
              /\ workers'[w].returned = Some(TRUE)
              /\ Len(workers'[w].pending) = Len(workers[w].pending) + 1
              /\ workers'[w].pending[Len(workers'[w].pending)].payload_json
                    = WithContentHash(workers[w].payload[1])]_vars

C20_Witness ==
    /\ workers /= <<>>
    /\ \A w \in Workers :
          /\ workers[w].pc = "idle"
          /\ workers[w].payload = Some(P_A)
          /\ workers[w].returned = Some(TRUE)
          /\ workers[w].pending = <<>>
    /\ Len(raw_jobs) = 2
    /\ raw_jobs[1].id /= raw_jobs[2].id
    /\ raw_jobs[1].payload_json.content_hash = raw_jobs[2].payload_json.content_hash
    /\ raw_jobs[1].payload_json.url = raw_jobs[2].payload_json.url
    /\ raw_jobs[1].payload_json.content_hash = Fingerprint(P_A)

----------------------------------------------------------------------------
(* Properties of the order of the steps of one run *)

\* the positions of run_ingest between the commit of its row and the commit
\* that ends the run
RunInProgress == pc \in {"fetch", "etl", "extract", "finish", "fail"}

\* the stores of RawRecords, Jobs and SkillTags
Stores == <<raw_jobs, jobs, job_skills>>

\* C21: run_ingest commits the IngestRun row with status running and
\* started_at set before the adapter's fetch and before any RawRecord, Job or
\* SkillTag is written: the step that creates the row and the fetch write
\* none of them, and from the start of the fetch until the commit that ends
\* the run the committed row reads as running.
C21_RunningBeforeFetch ==
    /\ [](RunInProgress =>
            /\ run.id \in 1..Len(ingest_runs)
            /\ ingest_runs[run.id].status = "running"
            /\ ingest_runs[run.id].started_at /= None
            /\ ingest_runs[run.id].finished_at = None)
    /\ [][/\ (pc = "idle" /\ pc' = "fetch") =>
                /\ Len(ingest_runs') = Len(ingest_runs) + 1
                /\ run'.id = Len(ingest_runs')
                /\ UNCHANGED Stores
          /\ pc = "fetch" => UNCHANGED <<Stores, ingest_runs>>
          /\ (RunInProgress /\ Stores' /= Stores) =>
                ingest_runs[run.id].status = "running"]_vars

\* the run has written RawRecords and Jobs and its row still reads running
C21_Witness ==
    /\ pc = "extract"
    /\ run.inserted_raw >= 1
    /\ run.inserted_jobs >= 1
    /\ ingest_runs[run.id].status = "running"
    /\ ingest_runs[run.id].started_at /= None

\* run_ingest has just returned normally
RunReturned == pc = "idle" /\ ret.op = "run_ingest" /\ ret.raised = None

\* C22: within one run the stages execute in the order raw ingestion of every
\* payload, Transform, Skill Extraction, each over the whole store; so right
\* after a successful run_ingest a transform_jobs call and an
\* extract_skills_for_all_jobs call both return 0.
C22_NothingLeftAfterRun ==
    /\ [](RunReturned =>
            /\ transform_jobs(raw_jobs, jobs).ok
            /\ transform_jobs(raw_jobs, jobs).inserted = 0
            /\ extract_skills_for_all_jobs(jobs, job_skills).ok
            /\ extract_skills_for_all_jobs(jobs, job_skills).inserted = 0)
    /\ [][/\ pc = "etl" =>
                /\ pc' \in {"extract", "fail"}
                /\ UNCHANGED job_skills
                /\ pc' = "extract" =>
                      /\ Len(raw_jobs') = Len(raw_jobs) + run'.inserted_raw
                      /\ Len(jobs') = Len(jobs) + run'.inserted_jobs
                      /\ transform_jobs(raw_jobs', jobs').inserted = 0
          /\ pc = "extract" =>
                /\ pc' \in {"finish", "fail"}
                /\ UNCHANGED <<raw_jobs, jobs>>
                /\ pc' = "finish" =>
                      extract_skills_for_all_jobs(jobs', job_skills').inserted = 0
          /\ pc = "finish" => UNCHANGED Stores]_vars

\* a run that inserted records, jobs and skills has returned
C22_Witness ==
    /\ RunReturned
    /\ ret.result[1].inserted_raw >= 1
    /\ ret.result[1].inserted_jobs >= 1
    /\ ret.result[1].inserted_skills >= 1
    /\ Len(ingest_runs) = 2

----------------------------------------------------------------------------
(* Properties of the Jobs table *)

\* the stored RawRecord of payload p
RecordOf(p) ==
    {i \in 1..Len(raw_jobs) : raw_jobs[i].payload_json = WithContentHash(p)}

\* C23: a Job is never mutated after Transform created it: no upsert,
\* Transform or Skill Extraction changes or deletes any field of an existing
\* Job, also when a later RawRecord with the same url carries another title,
\* description or posted_at; that record is skipped, not merged.
C23_JobsNeverMutated ==
    [][/\ Len(jobs') >= Len(jobs)
       /\ \A i \in 1..Len(jobs) : jobs'[i] = jobs[i]
       /\ (\A i \in (Len(jobs) + 1)..Len(jobs') :
              \A k \in 1..Len(jobs) : jobs'[i].url /= jobs[k].url)]_vars

\* Transform has run over the record of P_A and the later record of P_Adup,
\* which has the same url and another title, date and description, and the
\* one Job is still the one made from P_A
C23_Witness ==
    /\ RecordOf(P_A) /= {}
    /\ RecordOf(P_Adup) /= {}
    /\ \A i \in RecordOf(P_A), k \in RecordOf(P_Adup) : i < k
    /\ ret.op = "transform"
    /\ ret.ok
    /\ ret.inserted = 0
    /\ Len(jobs) = 1
    /\ jobs[1].title = P_A.title
    /\ jobs[1].description = P_A.description
    /\ jobs[1].posted_at /= safe_date(P_Adup.posted_at)

----------------------------------------------------------------------------
(* Properties of the raw-dedup fingerprint *)

\* the canonical field subset of a payload
EightFields(p) ==
    <<p.source, p.external_id, p.url, p.title, p.company, p.location,
      p.posted_at, p.description>>

\* the stored RawRecords that carry the eight fields of p
FieldCopies(p) ==
    {i \in 1..Len(raw_jobs) : EightFields(raw_jobs[i].payload_json) = EightFields(p)}

\* the stored RawRecords that carry the fingerprint and the url of p
Stored(p) ==
    {i \in 1..Len(raw_jobs) :
        /\ raw_jobs[i].payload_json.content_hash = Fingerprint(p)
        /\ raw_jobs[i].payload_json.url = p.url}

\* C24 as stated: the fingerprint is the hash of the eight canonical fields:
\* two upserted payloads that are equal on all eight are stored once, whatever
\* other keys they carry, and two that differ in at least one of the eight
\* are both stored.
C24_EightFieldFingerprint ==
    \A p, q \in upserted :
        IF EightFields(p) = EightFields(q)
        THEN Cardinality(FieldCopies(p)) = 1
        ELSE FieldCopies(p) /= {} /\ FieldCopies(q) /= {}

\* C24 amended: the fingerprint is the payload's own content_hash when it
\* carries one and otherwise the hash of the eight canonical fields: two
\* upserted payloads without a content_hash of their own that are equal on
\* all eight fields are stored once, whatever other keys they carry; two
\* payloads with different fingerprints are both stored; two payloads with
\* the same fingerprint and the same url are stored once, also when they
\* differ in one of the eight fields.
C24_Fingerprint ==
    \A p, q \in upserted :
        /\ p.content_hash = None => Fingerprint(p) = Some(compute_content_hash(p))
        /\ p.content_hash /= None => Fingerprint(p) = p.content_hash
        /\ (p.content_hash = None /\ q.content_hash = None
              /\ EightFields(p) = EightFields(q)) =>
                 Cardinality(FieldCopies(p)) = 1
        /\ Fingerprint(p) /= Fingerprint(q) =>
              /\ Stored(p) /= {} /\ Stored(q) /= {}
              /\ Stored(p) \cap Stored(q) = {}
        /\ (Fingerprint(p) = Fingerprint(q) /\ p.url = q.url) =>
              Cardinality(Stored(p) \cup Stored(q)) = 1

\* a payload and its copy with one more key are stored once, and so are an
\* arbeitnow posting and the same posting with another location
C24_Witness ==
    /\ {P_A, P_Atags, P_Arb, P_ArbMoved} \subseteq upserted
    /\ Len(raw_jobs) = 2
    /\ EightFields(P_Arb) /= EightFields(P_ArbMoved)
    /\ P_A /= P_Atags
    /\ Cardinality(FieldCopies(P_A)) = 1
    /\ Cardinality(FieldCopies(P_Arb) \cup FieldCopies(P_ArbMoved)) = 1

----------------------------------------------------------------------------
(* Properties of the environment tag at the existence check *)

\* the join rows of the analytics of environment E that show the url of p
CountedFor(p, E) ==
    {jr \in base_job_query(raw_jobs, jobs, None, E) : jobs[jr[1]].url = p.url}

----------------------------------------------------------------------------
(* Properties of failed runs *)

\* the counters and warnings of a row are the column defaults
CountersUntouched(row) ==
    /\ row.fetched = 0
    /\ row.inserted_raw = 0
    /\ row.inserted_jobs = 0
    /\ row.inserted_skills = 0
    /\ row.warnings = None

----------------------------------------------------------------------------
(* Properties of what Transform leaves behind *)

\* RawRecord r is represented by a Job with its url or its content hash
Represented(r) ==
    \E j \in 1..Len(jobs) :
        \/ jobs[j].url = r.payload_json.url
        \/ jobs[j].hash = JobOf(r, 0).hash

\* the RawRecords Transform does not skip
WithUrl == {i \in 1..Len(raw_jobs) : TruthyStr(raw_jobs[i].payload_json.url)}

\* C27: transform_jobs creates a Job for every stored RawRecord with a url
\* whose url and content hash are not yet seen, whatever other fields are
\* absent: a RawRecord with a url and no title does not make the call fail
\* and does not keep this or a later call from creating the Jobs of the other
\* records.
C27_TransformToleratesMissingFields ==
    ret.op = "transform" =>
        /\ ret.ok
        /\ \A i \in WithUrl : Represented(raw_jobs[i])

\* C28: after any transform_jobs call that returns, every RawRecord with a
\* non-empty url is represented by a Job with the same url or the same
\* content hash, and no Job has an empty or absent url.
C28_NothingPending ==
    /\ (ret.op = "transform" /\ ret.ok) => \A i \in WithUrl : Represented(raw_jobs[i])
    /\ \A j \in 1..Len(jobs) : TruthyStr(jobs[j].url)

\* a call has returned on a store with a record without url, a record that
\* got its own Job and a record represented by the content hash alone
C28_Witness ==
    /\ ret.op = "transform"
    /\ ret.ok
    /\ ret.inserted >= 1
    /\ Len(raw_jobs) = 3
    /\ Cardinality(WithUrl) = 2
    /\ Len(jobs) = 1
    /\ \E i \in WithUrl : raw_jobs[i].payload_json.url /= jobs[1].url

----------------------------------------------------------------------------
(* Two run_ingest calls on separate sessions of one database. A session reads
   the committed rows and its own flushed ones; session.commit() is one step
   that checks the constraints against the committed rows, and a rejected
   flush rolls the session's transaction back *)

\* what the adapter returns to the runs: P_A and P_Adup share the url,
\* P_A and P_Acopy the content hash, P_Acopy and P_Adup nothing
ConcPayloads == {P_A, P_Acopy, P_Adup}

\* the locals and the session of a run_ingest call not yet made
IdleSession ==
    [pc |-> "idle", run_id |-> 0, pending |-> <<>>, added |-> <<>>, pairs |-> <<>>,
     inserted_raw |-> 0, inserted_jobs |-> 0, inserted_skills |-> 0,
     fetched |-> 0, rolled_back |-> FALSE, raised |-> None]

\* pipeline.py 103-115: the row is added and committed
ConcStart(w) ==
    /\ workers /= <<>>
    /\ workers[w].pc = "idle"
    /\ Len(ingest_runs) < MaxRuns
    /\ ingest_runs' =
          Append(ingest_runs,
                 NewIngestRun(Len(ingest_runs) + 1,
                              [source_name |-> "remotive", search |-> "",
                               limit |-> 10, environment |-> None],
                              settings_ENV))
    /\ workers' = [workers EXCEPT
                      ![w] = [IdleSession EXCEPT !.pc = "fetch",
                                                 !.run_id = Len(ingest_runs) + 1]]
    /\ UNCHANGED <<raw_jobs, jobs, job_skills, settings_ENV, pc, run, ret,
                   upserted, shadow, registry, fetch, trend>>

\* pipeline.py 119 and 62-66: the fetch returns one payload, which is
\* upserted: flushed on this session, not committed
ConcFetchUpsert(w, payload) ==
    /\ workers /= <<>>
    /\ workers[w].pc = "fetch"
    /\ LET u == UpsertAll(raw_jobs, <<payload>>, settings_ENV, 0) IN
       workers' = [workers EXCEPT
                      ![w].pc = "etl",
                      ![w].fetched = 1,
                      ![w].pending = SubSeq(u.rows, Len(raw_jobs) + 1, Len(u.rows)),
                      ![w].inserted_raw = u.inserted_raw]
    /\ UNCHANGED <<raw_jobs, jobs, job_skills, ingest_runs, settings_ENV, pc, run,
                   ret, upserted, shadow, registry, fetch, trend>>

\* pipeline.py 119: the adapter raises
ConcFetchRaises(w) ==
    /\ workers /= <<>>
    /\ workers[w].pc = "fetch"
    /\ workers' = [workers EXCEPT ![w].pc = "fail", ![w].raised = Some(HTTPError)]
    /\ UNCHANGED <<raw_jobs, jobs, job_skills, ingest_runs, settings_ENV, pc, run,
                   ret, upserted, shadow, registry, fetch, trend>>

\* transform.py 43-82: the two SELECTs and the loop; added holds the Jobs of
\* session.add
ConcTransformRead(w) ==
    /\ workers /= <<>>
    /\ workers[w].pc = "etl"
    /\ LET seen_urls == {jobs[i].url[1] : i \in {k \in 1..Len(jobs) : TruthyStr(jobs[k].url)}}
           seen_hashes == {jobs[i].hash[1] : i \in {k \in 1..Len(jobs) : jobs[k].hash /= None}}
       IN workers' =
             [workers EXCEPT
                 ![w].pc = "transform",
                 ![w].added = TransformLoop(raw_jobs \o workers[w].pending, 1,
                                            Len(jobs) + 1, seen_urls, seen_hashes, <<>>)]
    /\ UNCHANGED <<raw_jobs, jobs, job_skills, ingest_runs, settings_ENV, pc, run,
                   ret, upserted, shadow, registry, fetch, trend>>

\* transform.py 84: session.commit() inserts the Jobs, with ids from the
\* table's sequence, and makes them and the flushed RawRecords visible, or is
\* rejected by a constraint of table jobs
ConcTransformCommit(w) ==
    /\ workers /= <<>>
    /\ workers[w].pc = "transform"
    /\ LET new == [k \in 1..Len(workers[w].added) |->
                      [workers[w].added[k] EXCEPT !.id = Len(jobs) + k]]
           rows == [k \in 1..Len(workers[w].pending) |->
                      [workers[w].pending[k] EXCEPT !.id = Len(raw_jobs) + k]]
       IN IF JobsConstraintsOk(jobs \o new)
          THEN /\ raw_jobs' = raw_jobs \o rows
               /\ jobs' = jobs \o new
               /\ workers' = [workers EXCEPT
                                 ![w].pc = "extract",
                                 ![w].pending = <<>>,
                                 ![w].added = <<>>,
                                 ![w].inserted_jobs = Len(new)]
          ELSE /\ UNCHANGED <<raw_jobs, jobs>>
               /\ workers' = [workers EXCEPT
                                 ![w].pc = "fail",
                                 ![w].pending = <<>>,
                                 ![w].added = <<>>,
                                 ![w].rolled_back = TRUE,
                                 ![w].raised = Some(IntegrityError)]
    /\ UNCHANGED <<job_skills, ingest_runs, settings_ENV, pc, run, ret, upserted,
                   shadow, registry, fetch, trend>>

\* skills.py 37-48 and 55: the SELECTs of the pairs and of the Jobs, and the
\* loop; pairs holds the JobSkills of session.add
ConcExtractRead(w) ==
    /\ workers /= <<>>
    /\ workers[w].pc = "extract"
    /\ workers' = [workers EXCEPT
                      ![w].pc = "skills",
                      ![w].pairs = JobLoop(jobs, 1, Range(job_skills), <<>>)]
    /\ UNCHANGED <<raw_jobs, jobs, job_skills, ingest_runs, settings_ENV, pc, run,
                   ret, upserted, shadow, registry, fetch, trend>>

\* skills.py 50: session.commit() inserts the pairs or is rejected by the
\* primary key of table job_skills
ConcExtractCommit(w) ==
    /\ workers /= <<>>
    /\ workers[w].pc = "skills"
    /\ IF SkillsConstraintsOk(job_skills \o workers[w].pairs)
       THEN /\ job_skills' = job_skills \o workers[w].pairs
            /\ workers' = [workers EXCEPT
                              ![w].pc = "finish",
                              ![w].pairs = <<>>,
                              ![w].inserted_skills = Len(workers[w].pairs)]
       ELSE /\ UNCHANGED job_skills
            /\ workers' = [workers EXCEPT
                              ![w].pc = "fail",
                              ![w].pairs = <<>>,
                              ![w].rolled_back = TRUE,
                              ![w].raised = Some(IntegrityError)]
    /\ UNCHANGED <<raw_jobs, jobs, ingest_runs, settings_ENV, pc, run, ret,
                   upserted, shadow, registry, fetch, trend>>

\* pipeline.py 124-140
ConcFinish(w) ==
    /\ workers /= <<>>
    /\ workers[w].pc = "finish"
    /\ ingest_runs' =
          [ingest_runs EXCEPT ![workers[w].run_id] =
              [@ EXCEPT !.status = "success",
                        !.finished_at = Some("now"),
                        !.fetched = workers[w].fetched,
                        !.inserted_raw = workers[w].inserted_raw,
                        !.inserted_jobs = workers[w].inserted_jobs,
                        !.inserted_skills = workers[w].inserted_skills]]
    /\ workers' = [workers EXCEPT ![w].pc = "idle"]
    /\ UNCHANGED <<raw_jobs, jobs, job_skills, settings_ENV, pc, run, ret,
                   upserted, shadow, registry, fetch, trend>>

\* pipeline.py 141-147: the handler's session.commit() raises when the
\* session's transaction was rolled back by the rejected flush
ConcFail(w) ==
    /\ workers /= <<>>
    /\ workers[w].pc = "fail"
    /\ IF workers[w].rolled_back
       THEN /\ UNCHANGED ingest_runs
            /\ workers' = [workers EXCEPT ![w].pc = "idle",
                                          ![w].raised = Some(PendingRollbackError)]
       ELSE /\ ingest_runs' =
                  [ingest_runs EXCEPT ![workers[w].run_id] =
                      [@ EXCEPT !.status = "failed",
                                !.finished_at = Some("now"),
                                !.error = Some(workers[w].raised[1].msg)]]
            /\ workers' = [workers EXCEPT ![w].pc = "idle"]
    /\ UNCHANGED <<raw_jobs, jobs, job_skills, settings_ENV, pc, run, ret,
                   upserted, shadow, registry, fetch, trend>>

InitConc ==
    /\ raw_jobs = <<>>
    /\ jobs = <<>>
    /\ job_skills = <<>>
    /\ ingest_runs = <<>>
    /\ settings_ENV \in Environments
    /\ pc = "idle"
    /\ run = NoRun
    /\ ret = NoRet
    /\ upserted = {}
    /\ shadow = EmptyStore
    /\ registry = NoSources
    /\ fetch = NoFetch
    /\ workers = <<IdleSession, IdleSession>>
    /\ trend = NoTrend

NextConc ==
    \/ \E w \in Workers : ConcStart(w)
    \/ \E w \in Workers, payload \in ConcPayloads : ConcFetchUpsert(w, payload)
    \/ \E w \in Workers : ConcFetchRaises(w)
    \/ \E w \in Workers : ConcTransformRead(w)
    \/ \E w \in Workers : ConcTransformCommit(w)
    \/ \E w \in Workers : ConcExtractRead(w)
    \/ \E w \in Workers : ConcExtractCommit(w)
    \/ \E w \in Workers : ConcFinish(w)
    \/ \E w \in Workers : ConcFail(w)

SpecConc == InitConc /\ [][NextConc]_vars

\* the committed Jobs and SkillTags satisfy the constraints of their tables
CommittedUnique ==
    /\ \A i, k \in 1..Len(jobs) :
          i /= k => jobs[i].url /= jobs[k].url /\ jobs[i].hash /= jobs[k].hash
    /\ \A i, k \in 1..Len(job_skills) : i /= k => job_skills[i] /= job_skills[k]

\* the commit of Transform or of Skill Extraction of worker w is rejected
Rejected(w) ==
    /\ workers[w].pc \in {"transform", "skills"}
    /\ workers'[w].pc = "fail"

\* C29: with two runs interleaved on separate sessions, the uniqueness of
\* Job.url, of the Job content hash and of (job_id, skill) holds in every
\* committed state because the constraints reject the second insert; the run
\* whose Transform or Extraction commit is rejected fails as a whole, so that
\* none of its Jobs or SkillTags are stored, and its IngestRun ends in failed.
C29_RejectedRunFailsAsAWhole ==
    /\ []CommittedUnique
    /\ [][\A w \in Workers :
             /\ Rejected(w) =>
                   /\ UNCHANGED Stores
                   /\ workers[w].inserted_jobs = 0
                   /\ workers[w].inserted_skills = 0
             /\ (workers[w].pc = "fail" /\ workers'[w].pc = "idle") =>
                   ingest_runs'[workers[w].run_id].status = "failed"]_vars

----------------------------------------------------------------------------
(* Properties of a run for a source that is not registered *)

\* the run in progress names a source no adapter is registered under
UnknownRun == pc /= "idle" /\ run.call.source_name \notin Range(SOURCES)

\* C30: run_ingest with an unregistered source name still creates an
\* IngestRun row, committed as running before the lookup; the lookup error is
\* recorded on that row (status failed, error the unknown-source message) and
\* re-raised; the adapter's fetch is never invoked and no RawRecord, Job or
\* SkillTag is written.
C30_UnknownSourceRecorded ==
    /\ [](UnknownRun =>
            /\ pc \in {"fetch", "fail"}
            /\ ingest_runs[run.id].status = "running"
            /\ ingest_runs[run.id].source = run.call.source_name
            /\ ~run.invoked
            /\ run.payloads = <<>>)
    /\ [][UnknownRun =>
            /\ UNCHANGED Stores
            /\ pc = "fetch" =>
                  /\ pc' = "fail"
                  /\ run'.exc = Some(UnknownSource(run.call.source_name, SOURCES))
                  /\ UNCHANGED ingest_runs
            /\ pc = "fail" =>
                  /\ pc' = "idle"
                  /\ ingest_runs'[run.id].status = "failed"
                  /\ ingest_runs'[run.id].finished_at /= None
                  /\ ingest_runs'[run.id].error =
                        Some(UnknownSource(run.call.source_name, SOURCES).msg)
                  /\ ret'.op = "run_ingest"
                  /\ ret'.run_id = run.id
                  /\ ret'.raised = run.exc]_vars

\* the call for source nosuch has returned on an empty store
C30_Witness ==
    /\ pc = "idle"
    /\ ret.op = "run_ingest"
    /\ ret.raised = Some(UnknownSource("nosuch", SOURCES))
    /\ ingest_runs[ret.run_id].source = "nosuch"
    /\ ingest_runs[ret.run_id].status = "failed"
    /\ ingest_runs[ret.run_id].started_at /= None
    /\ ingest_runs[ret.run_id].error /= None
    /\ raw_jobs = <<>>
    /\ jobs = <<>>
    /\ job_skills = <<>>

====
